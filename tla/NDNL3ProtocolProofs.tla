------------------------ MODULE NDNL3ProtocolProofs ------------------------
(***************************************************************************)
(* Theorems about the forwarding core, for every value of its constants.   *)
(***************************************************************************)
EXTENDS MCNDNL3Protocol, FiniteSetTheorems, WellFoundedInduction, TLAPS

-----------------------------------------------------------------------------
(* Longest prefix matching. *)

(* LongestPrefixMatch finds a prefix whenever there is one to find. *)
LEMMA LongestPrefixMatchFound ==
    ASSUME NEW S \in SUBSET Seq(Component), NEW n \in Seq(Component),
           HasPrefixIn(S, n)
    PROVE  LongestPrefixMatch(S, n) \in Prefixing(S, n)
<1> DEFINE Dropped == {Len(n) - Len(p) : p \in Prefixing(S, n)}
           Less == OpToRel(<, Nat)
<1>1. \A p \in Prefixing(S, n) : p \in Seq(Component) /\ Len(p) \in Nat /\ Len(p) <= Len(n)
  BY DEF Prefixing, PrefixOf
<1>2. Len(n) \in Nat
  OBVIOUS
<1>3. Dropped \subseteq Nat /\ Dropped # {}
  BY <1>1, <1>2 DEF HasPrefixIn
<1>4. PICK d \in Dropped : \A e \in Dropped : <<e, d>> \notin Less
  <2>1. IsWellFoundedOn(Less, Nat)
    BY NatLessThanWellFounded DEF Less
  <2> HIDE DEF Dropped, Less
  <2>2. \E x \in Dropped : \A y \in Dropped : ~ (<<y, x>> \in Less)
    BY <1>3, <2>1, WFMin
  <2> QED BY <2>2
<1>5. PICK p \in Prefixing(S, n) : d = Len(n) - Len(p)
  OBVIOUS
<1>6. ASSUME NEW q \in Prefixing(S, n)
      PROVE  Len(q) <= Len(p)
  <2>1. Len(n) - Len(q) \in Dropped
    OBVIOUS
  <2>2. ~ (Len(n) - Len(q) < Len(n) - Len(p))
    <3>1. << Len(n) - Len(q), d >> \notin Less
      BY <1>4, <2>1
    <3> QED BY <3>1, <1>3, <1>5, <2>1 DEF OpToRel
  <2> QED BY <1>1, <1>2, <2>2
<1> QED BY <1>6 DEF LongestPrefixMatch
-----------------------------------------------------------------------------
(* Types of the operators the actions are built from. *)

(* The key an Interest is recorded under is a name. *)
LEMMA KeyOfType ==
    ASSUME TypeOK, NEW n \in Name
    PROVE  KeyOf(n) \in Name /\ (~ IsNew(n) => KeyOf(n) \in PitNames)
<1>1. PitNames \in SUBSET Seq(Component) /\ n \in Seq(Component)
  BY NameAssumption DEF PitNames
<1>2. CASE IsNew(n)
  BY <1>2 DEF KeyOf
<1>3. CASE ~ IsNew(n)
  <2>1. HasPrefixIn(PitNames, n)
    BY <1>3 DEF IsNew
  <2>2. LongestPrefixMatch(PitNames, n) \in Prefixing(PitNames, n)
    BY <1>1, <2>1, LongestPrefixMatchFound
  <2> QED BY <1>3, <2>2 DEF KeyOf, Prefixing, PitNames
<1> QED BY <1>2, <1>3

(* A new PIT entry points to a route for its name, or to none. *)
LEMMA FibMatchFound ==
    ASSUME TypeOK, NEW n \in Name
    PROVE  \/ FibMatch(n) = NoFib
           \/ FibMatch(n) \in Allocated /\ PrefixOf(fib[FibMatch(n)].prefix, n)
<1> DEFINE P == {fib[a].prefix : a \in Allocated}
<1>1. P \in SUBSET Seq(Component) /\ n \in Seq(Component)
  BY NameAssumption DEF TypeOK, Allocated, FibEntry
<1>2. CASE ~ HasPrefixIn(P, n)
  BY <1>2 DEF FibMatch
<1>3. CASE HasPrefixIn(P, n)
  <2> DEFINE p == LongestPrefixMatch(P, n)
             a == CHOOSE a \in Allocated : fib[a].prefix = p
  <2>1. p \in P /\ PrefixOf(p, n)
    <3> HIDE DEF P
    <3> QED BY <1>1, <1>3, LongestPrefixMatchFound DEF Prefixing
  <2>2. a \in Allocated /\ fib[a].prefix = p
    BY <2>1
  <2>3. FibMatch(n) = a
    BY <1>3 DEF FibMatch
  <2> QED BY <2>1, <2>2, <2>3
<1> QED BY <1>2, <1>3

LEMMA FoundType ==
    ASSUME TypeOK, NEW n \in Name, NEW life \in Lifetime
    PROVE  Found(n, life) \in PitEntry
<1>1. CASE IsNew(n)
  <2>1. FibMatch(n) \in FibNode \cup {NoFib}
    BY FibMatchFound DEF Allocated
  <2>2. life \in 0..MaxLifetime /\ MaxLifetime \in Nat /\ MaxRetx \in Nat
    BY LifetimeAssumption, BoundAssumption
  <2> QED BY <1>1, <2>1, <2>2 DEF Found, NewEntry, PitEntry
<1>2. CASE ~ IsNew(n)
  BY <1>2, KeyOfType DEF Found, TypeOK, PitNames
<1> QED BY <1>1, <1>2

LEMMA RecordedType ==
    ASSUME NEW e \in PitEntry, NEW dup, NEW f \in Face, NEW x \in Nonce,
           NEW life \in Lifetime, NEW s \in Source \cup {NoSource}
    PROVE  Recorded(e, dup, f, x, life, s) \in PitEntry
<1>1. AtLeast(e.ttl, life) \in 0..MaxLifetime
  BY LifetimeAssumption DEF AtLeast, PitEntry
<1> QED BY <1>1 DEF Recorded, PitEntry

LEMMA PropagatedType ==
    ASSUME NEW e \in PitEntry, NEW F \in SUBSET Face
    PROVE  Propagated(e, F) \in PitEntry
<1>1. GiveUpInterest(e) \in PitEntry
  <2>1. 0 \in 0..MaxLifetime
    BY LifetimeAssumption
  <2> QED BY <2>1 DEF GiveUpInterest, PitEntry
<1>2. AddOutgoing(e, F) \in PitEntry
  <2> DEFINE count == [f \in Face |-> IF f \notin F THEN e.retx[f]
                                      ELSE IF f \notin e.outgoing THEN 0
                                      ELSE IF e.retx[f] < MaxRetx THEN e.retx[f] + 1
                                      ELSE MaxRetx]
  <2>1. count \in [Face -> 0..MaxRetx]
    BY BoundAssumption DEF PitEntry
  <2>2. AddOutgoing(e, F) = [e EXCEPT !.outgoing = @ \cup F, !.inVain = @ \ F,
                                      !.retx = count]
    BY DEF AddOutgoing, PitEntry
  <2> HIDE DEF count
  <2> QED BY <2>1, <2>2 DEF PitEntry
<1> QED BY <1>1, <1>2 DEF Propagated

LEMMA RemoveAllReferencesType ==
    ASSUME NEW e \in PitEntry, NEW f \in Face
    PROVE  RemoveAllReferencesToFace(e, f) \in PitEntry
BY DEF RemoveAllReferencesToFace, PitEntry

LEMMA NackedType ==
    ASSUME NEW e \in PitEntry, NEW f \in Face, NEW code
    PROVE  Nacked(e, f, code) \in PitEntry
BY DEF Nacked, PitEntry

LEMMA UpdateStatusType ==
    ASSUME TypeOK, NEW a \in FibNode \cup {NoFib}, NEW f \in Face,
           NEW isGreen \in BOOLEAN
    PROVE  UpdateStatus(a, f, isGreen) \in [FibNode -> FibEntry \cup {Freed}]
BY DEF TypeOK, UpdateStatus, FibEntry

LEMMA RemoveRecordType ==
    ASSUME TypeOK, NEW a \in FibNode, NEW f
    PROVE  RemoveRecord(a, f) \in FibEntry \cup {Freed}
BY DEF TypeOK, RemoveRecord, Without, FibEntry

(* Interests are only sent to faces of the daemon. *)
LEMMA TargetsType ==
    ASSUME TypeOK, NEW e \in PitEntry, NEW fb \in [FibNode -> FibEntry \cup {Freed}],
           NEW F \in Targets(e, fb), Sendable(F)
    PROVE  F \in SUBSET Face
<1>1. F \subseteq Face \cup {NoFace}
  BY DEF Targets, ViaGreen, Flood, GreenAt, FacesAt, PitEntry, FibEntry, Attached
<1> QED BY <1>1 DEF Sendable

LEMMA CreditType ==
    ASSUME NEW c \in [Requester -> Int], NEW R
    PROVE  /\ Charged(c, R) \in [Requester -> Int]
           /\ Repaid(c, R) \in [Requester -> Int]
BY DEF Charged, Repaid

LEMMA AfterAddType ==
    ASSUME TypeOK, NEW n \in Name, NEW C \in AfterAdd(n)
    PROVE  C \subseteq Name /\ n \in C
BY DEF TypeOK, AfterAdd

-----------------------------------------------------------------------------
(* Every action keeps the types. *)

LEMMA PacketsType ==
    ASSUME TypeOK, packets < MaxPackets, packets' = packets + 1
    PROVE  packets' \in 0..MaxPackets
BY BoundAssumption DEF TypeOK

LEMMA OneEntryType ==
    ASSUME TypeOK, NEW n \in Name, NEW e \in PitEntry \cup {NoEntry},
           pit' = [pit EXCEPT ![n] = e]
    PROVE  pit' \in [Name -> PitEntry \cup {NoEntry}]
BY DEF TypeOK

LEMMA DieType == ASSUME TypeOK, Die PROVE TypeOK'
BY DEF TypeOK, Die, PitEntry, FibEntry, Message, Request, FaceState

LEMMA OnInterestType ==
    ASSUME TypeOK, NEW f \in Face, NEW n \in InterestName, NEW x \in Nonce,
           NEW life \in Lifetime, NEW s \in Source \cup {NoSource},
           OnInterest(f, n, x, life, s)
    PROVE  TypeOK'
<1> DEFINE key == KeyOf(n)
           old == Found(n, life)
           dup == IsDuplicated(n, x)
           e == Recorded(old, dup, f, x, life, s)
           meta == IF s # NoSource /\ old.sources = {} THEN "freed" ELSE "intact"
           asked == Charged(credit, {f} \cup ({s} \ {NoSource}))
<1>1. n \in Name /\ key \in Name
  BY NameAssumption, KeyOfType
<1>2. e \in PitEntry
  BY <1>1, FoundType, RecordedType
<1>3. asked \in [Requester -> Int]
  BY CreditType DEF TypeOK
<1>4. packets < MaxPackets
  BY DEF OnInterest, CanReceive
<1>5. CASE Die
  BY <1>5, DieType
<1>6. ASSUME NEW v \in PitEntry \cup {NoEntry}, NEW c \in [Requester -> Int],
             pit' = [pit EXCEPT ![key] = v], credit' = c, stale' \subseteq stale,
             packets' = packets + 1, UNCHANGED <<up, face, fib, cs, management>>
      PROVE  TypeOK'
  <2>1. pit' \in [Name -> PitEntry \cup {NoEntry}]
    BY <1>1, <1>6, OneEntryType
  <2>2. packets' \in 0..MaxPackets
    BY <1>4, <1>6, PacketsType
  <2> QED BY <1>6, <2>1, <2>2 DEF TypeOK, management
<1>7. ASSUME NEW c \in CacheMatch(cs, n),
             pit' = [pit EXCEPT ![key] = NoEntry],
             credit' = Repaid(asked, Served(e)), stale' \subseteq stale,
             packets' = packets + 1, UNCHANGED <<up, face, fib, cs, management>>
      PROVE  TypeOK'
  <2>1. Repaid(asked, Served(e)) \in [Requester -> Int]
    BY <1>3, CreditType
  <2> QED BY <1>6, <1>7, <2>1
<1>8. ASSUME NEW F \in Targets(e, fib), Survives(F, meta),
             pit' = [pit EXCEPT ![key] = Propagated(e, F)], credit' = asked,
             packets' = packets + 1,
             UNCHANGED <<up, face, fib, cs, stale, management>>
      PROVE  TypeOK'
  <2>1. F \in SUBSET Face
    BY <1>2, <1>8, TargetsType DEF Survives, TypeOK
  <2>2. Propagated(e, F) \in PitEntry
    BY <1>2, <2>1, PropagatedType
  <2> QED BY <1>3, <1>6, <1>8, <2>2
<1> HIDE DEF key, old, dup, e, meta, asked
<1> QED BY <1>2, <1>3, <1>5, <1>6, <1>7, <1>8
        DEF OnInterest, key, old, dup, e, meta, asked

LEMMA OnDataType ==
    ASSUME TypeOK, NEW f \in Face, NEW n \in InterestName, OnData(f, n)
    PROVE  TypeOK'
<1>1. n \in Name
  BY NameAssumption
<1>2. packets < MaxPackets
  BY DEF OnData, Unsolicited, NotAsked, Answer, CanReceive
<1>3. CASE Unsolicited(f, n)
  <2>1. cs' \subseteq Name
    BY <1>1, <1>3, AfterAddType DEF Unsolicited
  <2>2. packets' \in 0..MaxPackets
    BY <1>2, <1>3, PacketsType DEF Unsolicited
  <2> QED BY <1>3, <2>1, <2>2 DEF Unsolicited, TypeOK, management
<1>4. CASE NotAsked(f, n)
  <2>1. packets' \in 0..MaxPackets
    BY <1>2, <1>4, PacketsType DEF NotAsked
  <2> QED BY <1>4, <2>1 DEF NotAsked, TypeOK, management, tables
<1>5. CASE Answer(f, n)
  <2> DEFINE e == pit[n]
             meta == IF f \in HubFace THEN "freed" ELSE "intact"
             cleared == e.incoming \cap AdhocFace # {}
  <2>1. CASE Die
    BY <2>1, DieType
  <2>2. ASSUME fib' = UpdateStatus(e.fib, f, TRUE), e # NoEntry,
               cs' \in AfterAdd(n),
               stale' = (stale \cap cs') \cup
                        (IF meta = "freed" /\ n \notin cs /\ ~cleared THEN {n} ELSE {}),
               pit' = [pit EXCEPT ![n] = NoEntry],
               credit' = Repaid(credit, Served(e)),
               packets' = packets + 1,
               UNCHANGED <<up, face, management>>
        PROVE  TypeOK'
    <3>1. fib' \in [FibNode -> FibEntry \cup {Freed}]
      <4>1. e.fib \in FibNode \cup {NoFib}
        BY <1>1, <2>2 DEF TypeOK, PitEntry
      <4> QED BY <2>2, <4>1, UpdateStatusType
    <3>2. cs' \subseteq Name /\ stale' \subseteq cs'
      BY <1>1, <2>2, AfterAddType
    <3>3. pit' \in [Name -> PitEntry \cup {NoEntry}]
      BY <1>1, <2>2, OneEntryType
    <3>4. credit' \in [Requester -> Int]
      BY <2>2, CreditType DEF TypeOK
    <3>5. packets' \in 0..MaxPackets
      BY <1>2, <2>2, PacketsType
    <3> QED BY <2>2, <3>1, <3>2, <3>3, <3>4, <3>5 DEF TypeOK, management
  <2> HIDE DEF e, meta, cleared
  <2> QED BY <1>5, <2>1, <2>2 DEF Answer, e, meta, cleared
<1> QED BY <1>3, <1>4, <1>5 DEF OnData

LEMMA OnNackType ==
    ASSUME TypeOK, NEW f \in Face, NEW n \in InterestName, NEW x \in Nonce,
           NEW code \in NackCode, NEW life \in Lifetime,
           OnNack(f, n, x, code, life)
    PROVE  TypeOK'
<1> DEFINE key == KeyOf(n)
           e == Nacked(pit[key], f, code)
           fb == UpdateStatus(e.fib, f, FALSE)
<1>1. n \in Name /\ key \in Name
  BY NameAssumption, KeyOfType
<1>2. packets < MaxPackets
  BY DEF OnNack, StrayNack, NackNotAsked, NackAsked, CanReceive
<1>3. ASSUME NEW v \in PitEntry \cup {NoEntry},
             NEW t \in [FibNode -> FibEntry \cup {Freed}],
             pit' = [pit EXCEPT ![key] = v], fib' = t, packets' = packets + 1,
             UNCHANGED <<up, face, cs, stale, management, credit>>
      PROVE  TypeOK'
  <2>1. pit' \in [Name -> PitEntry \cup {NoEntry}]
    BY <1>1, <1>3, OneEntryType
  <2>2. packets' \in 0..MaxPackets
    BY <1>2, <1>3, PacketsType
  <2> QED BY <1>3, <2>1, <2>2 DEF TypeOK, management
<1>4. CASE StrayNack(f, n, x, life)
  <2> DEFINE v == [Found(n, life) EXCEPT !.nonces = @ \cup {x}]
  <2>1. v \in PitEntry
    BY <1>1, FoundType DEF PitEntry
  <2>2. fib' \in [FibNode -> FibEntry \cup {Freed}]
    BY <1>4 DEF StrayNack, TypeOK
  <2>3. pit' = [pit EXCEPT ![key] = v]
    BY <1>4 DEF StrayNack
  <2> HIDE DEF v
  <2> QED BY <1>3, <1>4, <2>1, <2>2, <2>3 DEF StrayNack
<1>5. CASE NackNotAsked(f, n, x)
  <2>1. packets' \in 0..MaxPackets
    BY <1>2, <1>5, PacketsType DEF NackNotAsked
  <2> QED BY <1>5, <2>1 DEF NackNotAsked, TypeOK, management, tables
<1>6. CASE NackAsked(f, n, x, code)
  <2>1. CASE Die
    BY <2>1, DieType
  <2>2. pit[key] \in PitEntry
    BY <1>1, <1>6, KeyOfType DEF NackAsked, IsDuplicated, TypeOK, PitNames
  <2>3. e \in PitEntry /\ e.fib \in FibNode \cup {NoFib}
    BY <2>2, NackedType DEF PitEntry
  <2>4. fb \in [FibNode -> FibEntry \cup {Freed}]
    BY <2>3, UpdateStatusType
  <2>5. ASSUME pit' = [pit EXCEPT ![key] = e], fib' = fb, packets' = packets + 1,
               UNCHANGED <<up, face, cs, stale, management, credit>>
        PROVE  TypeOK'
    BY <1>3, <2>3, <2>4, <2>5
  <2>6. ASSUME NEW F \in Targets(e, fb), Survives(F, "null"),
               pit' = [pit EXCEPT ![key] = Propagated(e, F)], fib' = fb,
               packets' = packets + 1,
               UNCHANGED <<up, face, cs, stale, management, credit>>
        PROVE  TypeOK'
    <3>1. Propagated(e, F) \in PitEntry
      BY <2>3, <2>4, <2>6, TargetsType, PropagatedType DEF Survives
    <3> QED BY <1>3, <2>4, <2>6, <3>1
  <2> HIDE DEF key, e, fb
  <2> QED BY <1>6, <2>1, <2>5, <2>6 DEF NackAsked, key, e, fb
<1> QED BY <1>4, <1>5, <1>6 DEF OnNack

LEMMA ApplicationType == ASSUME TypeOK, Application PROVE TypeOK'
<1>1. ASSUME NEW f \in LocalFace, Connect(f) \/ Leave(f) PROVE TypeOK'
  BY <1>1 DEF Connect, Leave, TypeOK, Face, FaceState, tables, management
<1>2. ASSUME NEW f \in LocalFace, NEW action \in {"selfreg", "unreg"},
             NEW p \in RegName, SendRequest(f, action, p)
      PROVE  TypeOK'
  <2>1. [action |-> action, prefix |-> p, face |-> f] \in Message
    BY DEF Message, Request, Face
  <2>2. queue' \in Seq(Message)
    BY <1>2, <2>1 DEF SendRequest, TypeOK
  <2>3. packets' \in 0..MaxPackets
    BY <1>2, PacketsType DEF SendRequest
  <2> QED BY <1>2, <2>2, <2>3 DEF SendRequest, TypeOK, tables
<1> QED BY <1>1, <1>2 DEF Application

LEMMA HangupType == ASSUME TypeOK, Hangup PROVE TypeOK'
<1>1. ASSUME NEW f \in LocalFace, ReadError(f) PROVE TypeOK'
  BY <1>1 DEF ReadError, TypeOK, FaceState, tables, management
<1>2. ASSUME NEW f \in LocalFace, RemoveFace(f) PROVE TypeOK'
  <2>1. CASE Die
    BY <2>1, DieType
  <2>2. CASE ~ Die
    <3>1. f \in Face
      BY DEF Face
    <3>2. \A n \in Name : n \in PitNames => RemoveAllReferencesToFace(pit[n], f) \in PitEntry
      BY <3>1, RemoveAllReferencesType DEF TypeOK, PitNames
    <3>3. pit' \in [Name -> PitEntry \cup {NoEntry}]
      BY <1>2, <2>2, <3>2 DEF RemoveFace
    <3>4. fib' \in [FibNode -> FibEntry \cup {Freed}]
      BY <1>2, <2>2, RemoveRecordType DEF RemoveFace
    <3>5. face' \in [Face -> FaceState]
      BY <1>2, <2>2 DEF RemoveFace, TypeOK, FaceState
    <3> QED BY <1>2, <2>2, <3>3, <3>4, <3>5 DEF RemoveFace, TypeOK, management
  <2> QED BY <2>1, <2>2
<1> QED BY <1>1, <1>2 DEF Hangup

LEMMA TakeRequestType == ASSUME TypeOK, TakeRequest PROVE TypeOK'
<1>1. Head(queue) \in Message /\ Tail(queue) \in Seq(Message)
  BY DEF TakeRequest, TypeOK
<1>2. Length(Head(queue)) \in Nat
  BY <1>1, TextAssumption DEF Length, Message, Request
<1>3. [Head(queue) EXCEPT !.face = GetFace(@)] \in Request
  BY <1>1 DEF Message, Request, GetFace, Attached
<1>4. CASE Die
  BY <1>4, DieType
<1>5. CASE ~ Die
  BY <1>1, <1>2, <1>3, <1>5 DEF TakeRequest, TypeOK, tables
<1> QED BY <1>4, <1>5

LEMMA ManageType == ASSUME TypeOK, Manage PROVE TypeOK'
<1> DEFINE p == manager.prefix
           f == manager.face
<1>1. manager \in Request
  BY DEF Manage, TypeOK
<1>2. p \in RegName /\ f \in Face \cup {NoFace}
  BY <1>1 DEF Message, Request
<1>3. CASE Die
  BY <1>3, DieType
<1>4. ASSUME fib' \in [FibNode -> FibEntry \cup {Freed}], manager' = Idle,
             UNCHANGED <<up, face, pit, cs, stale, queue, inbuf, credit, packets>>
      PROVE  TypeOK'
  BY <1>4 DEF TypeOK
<1>5. ASSUME NEW a \in FibNodeOf(p), AddToEntry(a, f) PROVE TypeOK'
  <2>1. CASE Die
    BY <2>1, DieType
  <2>2. fib[a] \in FibEntry
    BY DEF FibNodeOf, Allocated, TypeOK
  <2>3. CASE ~ Die
    <3>1. fib' = [fib EXCEPT ![a].faces = @ \cup {f}]
      BY <1>5, <2>3 DEF AddToEntry
    <3>2. fib' \in [FibNode -> FibEntry \cup {Freed}]
      BY <1>2, <2>2, <3>1 DEF TypeOK, FibEntry
    <3> QED BY <1>4, <1>5, <2>3, <3>2 DEF AddToEntry
  <2> QED BY <2>1, <2>3
<1>6. ASSUME AddNewEntry(p, f) PROVE TypeOK'
  <2>1. CASE Die
    BY <2>1, DieType
  <2>2. CASE ~ Die
    <3>1. [prefix |-> p, faces |-> {f}, green |-> {}] \in FibEntry
      BY <1>2 DEF FibEntry
    <3>2. fib' \in [FibNode -> FibEntry \cup {Freed}]
      BY <1>6, <2>2, <3>1 DEF AddNewEntry, TypeOK
    <3> QED BY <1>4, <1>6, <2>2, <3>2 DEF AddNewEntry
  <2> QED BY <2>1, <2>2
<1>7. ASSUME RemovePrefix(p, f) PROVE TypeOK'
  <2>1. CASE Die
    BY <2>1, DieType
  <2>2. CASE ~ Die
    <3>1. fib' \in [FibNode -> FibEntry \cup {Freed}]
      BY <1>7, <2>2, RemoveRecordType DEF RemovePrefix, TypeOK
    <3> QED BY <1>4, <1>7, <2>2, <3>1 DEF RemovePrefix
  <2> QED BY <2>1, <2>2
<1> QED BY <1>5, <1>6, <1>7 DEF Manage

LEMMA TimeType == ASSUME TypeOK, Tick \/ Reap PROVE TypeOK'
<1>1. CASE Tick
  <2>1. ASSUME NEW n \in Name, n \in PitNames, pit[n].ttl # 0
        PROVE  [pit[n] EXCEPT !.ttl = @ - 1] \in PitEntry
    <3>1. pit[n] \in PitEntry
      BY <2>1 DEF TypeOK, PitNames
    <3>2. pit[n].ttl - 1 \in 0..MaxLifetime
      BY <2>1, <3>1, LifetimeAssumption DEF PitEntry
    <3> QED BY <3>1, <3>2 DEF PitEntry
  <2>2. pit' \in [Name -> PitEntry \cup {NoEntry}]
    BY <1>1, <2>1 DEF Tick, TypeOK
  <2> QED BY <1>1, <2>2 DEF Tick, TypeOK, management
<1>2. CASE Reap
  BY <1>2 DEF Reap, TypeOK, management
<1> QED BY <1>1, <1>2

LEMMA InitType == ASSUME Init PROVE TypeOK
BY BoundAssumption DEF Init, TypeOK, Face, FaceState, Requester

LEMMA NextType == ASSUME TypeOK, [Next]_vars PROVE TypeOK'
<1>1. CASE Packet
  BY <1>1, OnInterestType, OnDataType, OnNackType DEF Packet
<1>2. CASE Application \/ Hangup \/ TakeRequest \/ Manage \/ Tick \/ Reap
  BY <1>2, ApplicationType, HangupType, TakeRequestType, ManageType, TimeType
<1>3. CASE UNCHANGED vars
  BY <1>3 DEF TypeOK, vars
<1> QED BY <1>1, <1>2, <1>3 DEF Next

(***************************************************************************)
(* The variables keep their types: whatever arrives, the tables hold       *)
(* well-formed entries about known faces, names and routes.                *)
(***************************************************************************)
THEOREM TypeCorrect == Spec => []TypeOK
BY InitType, NextType, PTL DEF Spec

-----------------------------------------------------------------------------
(***************************************************************************)
(* What one step may do to one PIT entry, whichever handler takes it.  The *)
(* invariants below follow from these three facts.                         *)
(***************************************************************************)

(* The entry of n before the step, as the lookup would have made it. *)
Before(n) == IF n \in PitNames THEN pit[n] ELSE NewEntry(FibMatch(n), 0)

NewlyAsked(n) == pit'[n].outgoing \ Before(n).outgoing

(* Nobody new waits on the entry of n. *)
NoNewWaiter(n) ==
    /\ pit'[n].incoming \subseteq Before(n).incoming
    /\ pit'[n].sources = Before(n).sources

(* Face f waits on the entry of n now, for the client at s if it is a hub. *)
NewWaiter(n, f, s) ==
    /\ f \in Monitored /\ (s # NoSource <=> f \in HubFace)
    /\ pit'[n].incoming \subseteq Before(n).incoming \cup {f}
    /\ Before(n).sources \subseteq pit'[n].sources
    /\ s # NoSource => pit'[n].sources # {}

EntryStep(n) ==
    /\ pit'[n].fib = Before(n).fib
    /\ Sendable(NewlyAsked(n))
    /\ NoNewWaiter(n) \/ \E f \in Face, s \in Source \cup {NoSource} : NewWaiter(n, f, s)

(* Looking a name up finds its entry if it has one. *)
LEMMA FoundIsBefore ==
    ASSUME TypeOK, NEW n \in Name, NEW life \in Lifetime
    PROVE  LET old == Found(n, life)
               b == Before(KeyOf(n))
           IN  /\ old.fib = b.fib /\ old.incoming = b.incoming
               /\ old.outgoing = b.outgoing /\ old.sources = b.sources
<1>1. CASE IsNew(n)
  <2>1. PrefixOf(n, n) /\ n \in Seq(Component)
    BY NameAssumption DEF PrefixOf
  <2>2. n \notin PitNames
    BY <1>1, <2>1 DEF IsNew, HasPrefixIn, Prefixing
  <2> QED BY <1>1, <2>2 DEF Found, KeyOf, Before, NewEntry
<1>2. CASE ~ IsNew(n)
  BY <1>2, KeyOfType DEF Found, Before
<1> QED BY <1>1, <1>2

(* An entry the step leaves alone. *)
LEMMA SameEntry ==
    ASSUME TypeOK, NEW n \in PitNames', n \in Name, pit'[n] = pit[n]
    PROVE  EntryStep(n)
<1>1. n \in PitNames
  BY DEF PitNames
<1> QED BY <1>1 DEF EntryStep, Before, NoNewWaiter, NewlyAsked, Sendable

(* Propagation asks faces that can be sent to, or gives the entry up. *)
LEMMA PropagatedStep ==
    ASSUME NEW e \in PitEntry, NEW F, Sendable(F)
    PROVE  LET v == Propagated(e, F)
           IN  /\ v.fib = e.fib /\ v.sources = e.sources
               /\ v.incoming \subseteq e.incoming
               /\ Sendable(v.outgoing \ e.outgoing)
BY DEF Propagated, GiveUpInterest, AddOutgoing, PitEntry, Sendable

LEMMA OnInterestStep ==
    ASSUME TypeOK, NEW f \in Face, NEW n \in InterestName, NEW x \in Nonce,
           NEW life \in Lifetime, NEW s \in Source \cup {NoSource},
           OnInterest(f, n, x, life, s), NEW m \in PitNames'
    PROVE  EntryStep(m)
<1> DEFINE key == KeyOf(n)
           old == Found(n, life)
           dup == IsDuplicated(n, x)
           e == Recorded(old, dup, f, x, life, s)
           meta == IF s # NoSource /\ old.sources = {} THEN "freed" ELSE "intact"
<1>1. n \in Name /\ key \in Name /\ m \in Name
  BY NameAssumption, KeyOfType DEF PitNames
<1>2. e \in PitEntry /\ old \in PitEntry
  BY <1>1, FoundType, RecordedType
<1>3. f \in Monitored /\ (s # NoSource <=> f \in HubFace)
  BY DEF OnInterest, CanReceive
<1>4. /\ e.fib = old.fib /\ e.outgoing = old.outgoing
      /\ e.incoming = old.incoming \cup {f}
      /\ old.sources \subseteq e.sources
      /\ s # NoSource => e.sources # {}
  BY <1>2 DEF Recorded, PitEntry
<1>5. ASSUME NEW v, pit' = [pit EXCEPT ![key] = v],
             v.fib = e.fib, v.sources = e.sources, v.incoming \subseteq e.incoming,
             Sendable(v.outgoing \ e.outgoing)
      PROVE  EntryStep(m)
  <2>1. CASE m = key
    <3>1. pit'[m] = v
      BY <1>1, <1>5, <2>1 DEF TypeOK
    <3>2. NewWaiter(m, f, s)
      BY <1>1, <1>3, <1>4, <1>5, <2>1, <3>1, FoundIsBefore DEF NewWaiter
    <3>3. pit'[m].fib = Before(m).fib /\ NewlyAsked(m) = v.outgoing \ e.outgoing
      BY <1>1, <1>4, <1>5, <2>1, <3>1, FoundIsBefore DEF NewlyAsked
    <3> QED BY <1>5, <3>2, <3>3 DEF EntryStep
  <2>2. CASE m # key
    BY <1>1, <1>5, <2>2, SameEntry DEF TypeOK
  <2> QED BY <2>1, <2>2
<1>6. ASSUME pit' = [pit EXCEPT ![key] = NoEntry] PROVE EntryStep(m)
  BY <1>1, <1>6, SameEntry DEF TypeOK, PitNames
<1>7. ASSUME pit' = [pit EXCEPT ![key] = e] PROVE EntryStep(m)
  BY <1>5, <1>7 DEF Sendable
<1>8. ASSUME NEW F, Sendable(F), pit' = [pit EXCEPT ![key] = Propagated(e, F)]
      PROVE  EntryStep(m)
  BY <1>2, <1>5, <1>8, PropagatedStep
<1>9. ASSUME Die PROVE EntryStep(m)
  BY <1>1, <1>9, SameEntry DEF Die
<1> HIDE DEF key, old, dup, e, meta
<1> QED BY <1>6, <1>7, <1>8, <1>9
        DEF OnInterest, Survives, key, old, dup, e, meta

LEMMA OnDataStep ==
    ASSUME TypeOK, NEW f \in Face, NEW n \in InterestName, OnData(f, n),
           NEW m \in PitNames'
    PROVE  EntryStep(m)
<1>1. m \in Name /\ pit'[m] = pit[m]
  BY NameAssumption
     DEF OnData, Unsolicited, NotAsked, Answer, Die, PitNames, tables, TypeOK
<1> QED BY <1>1, SameEntry

LEMMA OnNackStep ==
    ASSUME TypeOK, NEW f \in Face, NEW n \in InterestName, NEW x \in Nonce,
           NEW code \in NackCode, NEW life \in Lifetime,
           OnNack(f, n, x, code, life), NEW m \in PitNames'
    PROVE  EntryStep(m)
<1> DEFINE key == KeyOf(n)
           e == Nacked(pit[key], f, code)
           fb == UpdateStatus(e.fib, f, FALSE)
<1>1. n \in Name /\ key \in Name /\ m \in Name
  BY NameAssumption, KeyOfType DEF PitNames
<1>2. ASSUME pit'[m] = pit[m] PROVE EntryStep(m)
  BY <1>1, <1>2, SameEntry
<1>3. ASSUME NEW v, pit' = [pit EXCEPT ![key] = v], v.fib = Before(key).fib,
             v.incoming \subseteq Before(key).incoming, v.sources = Before(key).sources,
             Sendable(v.outgoing \ Before(key).outgoing)
      PROVE  EntryStep(m)
  BY <1>1, <1>2, <1>3 DEF EntryStep, NoNewWaiter, NewlyAsked, TypeOK
<1>4. CASE StrayNack(f, n, x, life)
  <2> DEFINE v == [Found(n, life) EXCEPT !.nonces = @ \cup {x}]
  <2>1. /\ v.fib = Before(key).fib /\ v.incoming = Before(key).incoming
        /\ v.sources = Before(key).sources /\ v.outgoing = Before(key).outgoing
    BY <1>1, FoundType, FoundIsBefore DEF PitEntry
  <2>2. pit' = [pit EXCEPT ![key] = v]
    BY <1>4 DEF StrayNack
  <2> HIDE DEF v
  <2> QED BY <1>3, <2>1, <2>2 DEF Sendable
<1>5. CASE NackNotAsked(f, n, x)
  BY <1>2, <1>5 DEF NackNotAsked, tables
<1>6. CASE NackAsked(f, n, x, code)
  <2>1. pit[key] \in PitEntry /\ Before(key) = pit[key]
    BY <1>1, <1>6, KeyOfType
       DEF NackAsked, IsDuplicated, TypeOK, PitNames, Before
  <2>2. e \in PitEntry /\ e.fib = pit[key].fib /\ e.sources = pit[key].sources
        /\ e.incoming \subseteq pit[key].incoming /\ e.outgoing = pit[key].outgoing
    BY <2>1, NackedType DEF Nacked, PitEntry
  <2>3. ASSUME Die PROVE EntryStep(m)
    BY <1>2, <2>3 DEF Die
  <2>4. ASSUME pit' = [pit EXCEPT ![key] = e] PROVE EntryStep(m)
    BY <1>3, <2>1, <2>2, <2>4 DEF Sendable
  <2>5. ASSUME NEW F, Sendable(F), pit' = [pit EXCEPT ![key] = Propagated(e, F)]
        PROVE  EntryStep(m)
    <3> DEFINE v == Propagated(e, F)
    <3>1. /\ v.fib = Before(key).fib /\ v.sources = Before(key).sources
          /\ v.incoming \subseteq Before(key).incoming
          /\ Sendable(v.outgoing \ Before(key).outgoing)
      BY <2>1, <2>2, <2>5, PropagatedStep
    <3> HIDE DEF v
    <3> QED BY <1>3, <2>5, <3>1 DEF v
  <2> HIDE DEF key, e, fb
  <2> QED BY <1>6, <2>3, <2>4, <2>5 DEF NackAsked, Survives, key, e, fb
<1> QED BY <1>4, <1>5, <1>6 DEF OnNack

LEMMA HangupStep ==
    ASSUME TypeOK, Hangup, NEW m \in PitNames'
    PROVE  EntryStep(m)
<1>1. m \in Name
  BY DEF PitNames
<1>2. ASSUME pit'[m] = pit[m] PROVE EntryStep(m)
  BY <1>1, <1>2, SameEntry
<1>3. ASSUME NEW f, m \in PitNames, pit'[m] = RemoveAllReferencesToFace(pit[m], f)
      PROVE  EntryStep(m)
  <2>1. pit[m] \in PitEntry /\ Before(m) = pit[m]
    BY <1>1, <1>3 DEF Before, PitNames, TypeOK
  <2> QED BY <1>3, <2>1
          DEF EntryStep, NoNewWaiter, NewlyAsked, Sendable,
              RemoveAllReferencesToFace, PitEntry
<1>4. PICK f \in LocalFace : RemoveFace(f) \/ ReadError(f)
  BY DEF Hangup
<1>5. CASE ReadError(f) \/ Die
  BY <1>2, <1>5 DEF ReadError, tables, Die
<1>6. CASE RemoveFace(f) /\ ~ Die
  BY <1>1, <1>3, <1>6 DEF RemoveFace, PitNames
<1> QED BY <1>4, <1>5, <1>6

LEMMA TimeStep ==
    ASSUME TypeOK, Tick \/ Reap, NEW m \in PitNames'
    PROVE  EntryStep(m)
<1>1. m \in Name
  BY DEF PitNames
<1>2. CASE pit'[m] = pit[m]
  BY <1>1, <1>2, SameEntry
<1>3. CASE m \in PitNames /\ pit'[m] = [pit[m] EXCEPT !.ttl = @ - 1]
  <2>1. pit[m] \in PitEntry /\ Before(m) = pit[m]
    BY <1>1, <1>3 DEF Before, PitNames, TypeOK
  <2> QED BY <1>3, <2>1
          DEF EntryStep, NoNewWaiter, NewlyAsked, Sendable, PitEntry
<1> QED BY <1>1, <1>2, <1>3 DEF Tick, Reap, PitNames

LEMMA NextStep ==
    ASSUME TypeOK, Next, NEW m \in PitNames'
    PROVE  EntryStep(m)
<1>1. CASE Packet
  BY <1>1, OnInterestStep, OnDataStep, OnNackStep DEF Packet
<1>2. CASE Hangup \/ Tick \/ Reap
  BY <1>2, HangupStep, TimeStep
<1>3. CASE Application \/ TakeRequest \/ Manage
  <2>1. pit' = pit
    BY <1>3 DEF Application, Connect, Leave, SendRequest, TakeRequest, Manage,
                AddToEntry, AddNewEntry, RemovePrefix, Die, tables
  <2> QED BY <2>1, SameEntry DEF PitNames
<1> QED BY <1>1, <1>2, <1>3 DEF Next

-----------------------------------------------------------------------------
(* Faces in PIT entries. *)

(* Packets leave the faces and the management thread alone. *)
LEMMA PacketScope ==
    ASSUME Packet
    PROVE  UNCHANGED <<face, queue, manager, inbuf>>
<1>1. ASSUME NEW f, NEW n, NEW x, NEW life, NEW s, OnInterest(f, n, x, life, s)
      PROVE  UNCHANGED <<face, queue, manager, inbuf>>
  BY <1>1 DEF OnInterest, Die, management
<1>2. ASSUME NEW f, NEW n, OnData(f, n)
      PROVE  UNCHANGED <<face, queue, manager, inbuf>>
  BY <1>2 DEF OnData, Unsolicited, NotAsked, Answer, Die, management
<1>3. ASSUME NEW f, NEW n, NEW x, NEW code, NEW life, OnNack(f, n, x, code, life)
      PROVE  UNCHANGED <<face, queue, manager, inbuf>>
  BY <1>3 DEF OnNack, StrayNack, NackNotAsked, NackAsked, Die, management
<1> QED BY <1>1, <1>2, <1>3 DEF Packet

(* Only RemoveFace takes a face off m_faces. *)
LEMMA AttachedStays ==
    ASSUME TypeOK, Next, ~ \E f \in LocalFace : RemoveFace(f)
    PROVE  Attached \subseteq Attached'
<1>1. CASE UNCHANGED face
  BY <1>1 DEF Attached
<1>2. ASSUME NEW f \in LocalFace, Connect(f) \/ Leave(f) \/ ReadError(f)
      PROVE  Attached \subseteq Attached'
  BY <1>2 DEF Connect, Leave, ReadError, Attached, TypeOK, Face
<1>3. CASE Packet
  BY <1>1, <1>3, PacketScope
<1>4. CASE TakeRequest \/ Manage \/ Tick \/ Reap
  BY <1>1, <1>4 DEF TakeRequest, Manage, AddToEntry, AddNewEntry, RemovePrefix,
                    Tick, Reap, Die
<1>5. CASE Application
  BY <1>1, <1>2, <1>5 DEF Application, SendRequest
<1>6. CASE Hangup
  BY <1>2, <1>6 DEF Hangup
<1> QED BY <1>3, <1>4, <1>5, <1>6 DEF Next

LEMMA PitFacesStep ==
    ASSUME TypeOK, PitFacesAttached, Next
    PROVE  PitFacesAttached'
<1> SUFFICES ASSUME NEW n \in PitNames'
             PROVE  pit'[n].incoming \cup pit'[n].outgoing \subseteq Attached'
  BY DEF PitFacesAttached
<1>1. n \in Name
  BY DEF PitNames
<1>2. Before(n).incoming \cup Before(n).outgoing \subseteq Attached
  BY DEF Before, PitFacesAttached, NewEntry
<1>3. CASE \E f \in LocalFace : RemoveFace(f) /\ ~ Die
  <2> PICK f \in LocalFace : RemoveFace(f) /\ ~ Die
    BY <1>3
  <2>1. n \in PitNames /\ pit'[n] = RemoveAllReferencesToFace(pit[n], f)
    BY <1>1 DEF RemoveFace, PitNames
  <2>2. pit[n] \in PitEntry
    BY <1>1, <2>1 DEF PitNames, TypeOK
  <2>3. Attached \ {f} \subseteq Attached'
    BY DEF RemoveFace, Attached, TypeOK
  <2>4. f \notin pit'[n].incoming \cup pit'[n].outgoing
    BY <2>1, <2>2 DEF RemoveAllReferencesToFace, PitEntry
  <2>5. pit'[n].incoming \cup pit'[n].outgoing \subseteq Before(n).incoming \cup Before(n).outgoing
    BY <2>1, <2>2 DEF RemoveAllReferencesToFace, PitEntry, Before
  <2> QED BY <1>2, <2>3, <2>4, <2>5
<1>4. CASE ~ \E f \in LocalFace : RemoveFace(f) /\ ~ Die
  <2>1. Attached \subseteq Attached'
    BY <1>4, AttachedStays DEF Die, Attached
  <2>2. pit'[n].outgoing \subseteq Before(n).outgoing \cup Attached
    <3>1. Sendable(NewlyAsked(n))
      BY NextStep DEF EntryStep
    <3>2. pit'[n].outgoing \subseteq Face
      BY <1>1, NextType DEF TypeOK, PitEntry, PitNames
    <3> QED BY <3>1, <3>2 DEF NewlyAsked, Sendable, Attached
  <2>3. pit'[n].incoming \subseteq Before(n).incoming \cup Attached
    BY NextStep DEF EntryStep, NoNewWaiter, NewWaiter, Monitored, Attached
  <2> QED BY <1>2, <2>1, <2>2, <2>3
<1> QED BY <1>3, <1>4

(***************************************************************************)
(* The PIT never keeps a face that RemoveFace has taken off the daemon:    *)
(* the pointers that answering an entry follows are those of live faces,   *)
(* in every order of packets, disconnections and timers.                   *)
(***************************************************************************)
THEOREM PitFacesAlwaysAttached == Spec => []PitFacesAttached
<1>1. Init => PitFacesAttached
  BY DEF Init, PitFacesAttached, PitNames
<1>2. TypeOK /\ PitFacesAttached /\ [Next]_vars => PitFacesAttached'
  <2>1. CASE UNCHANGED vars
    BY <2>1 DEF vars, PitFacesAttached, PitNames, Attached
  <2> QED BY <2>1, PitFacesStep
<1> QED BY <1>1, <1>2, TypeCorrect, PTL DEF Spec

-----------------------------------------------------------------------------
(* A hub face that waits has a client to answer. *)

(***************************************************************************)
(* Content for a hub face is addressed to the clients whose Interests the  *)
(* entry recorded (sourceMetadata); there always is one, also when nacks,  *)
(* give-ups and retransmissions have gone over the entry.                  *)
(***************************************************************************)
THEOREM HubRequesterAlwaysKnown == Spec => []HubRequesterKnown
<1>1. Init => HubRequesterKnown
  BY DEF Init, HubRequesterKnown, PitNames
<1>2. TypeOK /\ HubRequesterKnown /\ [Next]_vars => HubRequesterKnown'
  <2> SUFFICES ASSUME TypeOK, HubRequesterKnown, [Next]_vars
               PROVE  HubRequesterKnown'
    OBVIOUS
  <2>1. CASE UNCHANGED vars
    BY <2>1 DEF vars, HubRequesterKnown, PitNames
  <2>2. ASSUME Next, NEW n \in PitNames', pit'[n].incoming \cap HubFace # {}
        PROVE  pit'[n].sources # {}
    <3>1. Before(n).incoming \cap HubFace # {} => Before(n).sources # {}
      BY DEF Before, HubRequesterKnown, NewEntry
    <3> QED BY <2>2, <3>1, NextStep DEF EntryStep, NoNewWaiter, NewWaiter
  <2> QED BY <2>1, <2>2 DEF HubRequesterKnown
<1> QED BY <1>1, <1>2, TypeCorrect, PTL DEF Spec

-----------------------------------------------------------------------------
(* Routes. *)

(* The route at a is still there, for the same prefix, with every face. *)
RouteKept(a) ==
    /\ a \in Allocated' /\ fib'[a].prefix = fib[a].prefix
    /\ fib[a].faces \subseteq fib'[a].faces

(* No face joins the route at a but the one the manager has in hand. *)
RouteAdded(a) ==
    \A f \in fib'[a].faces :
        \/ a \in Allocated /\ f \in fib[a].faces
        \/ manager # Idle /\ f = manager.face

(* Packets change the colour of routes, nothing else. *)
LEMMA PacketRoutes ==
    ASSUME TypeOK, Packet, NEW a \in FibNode
    PROVE  /\ a \in Allocated <=> a \in Allocated'
           /\ a \in Allocated =>
                 fib'[a].faces = fib[a].faces /\ fib'[a].prefix = fib[a].prefix
<1> DEFINE Goal ==
           /\ a \in Allocated <=> a \in Allocated'
           /\ a \in Allocated =>
                 fib'[a].faces = fib[a].faces /\ fib'[a].prefix = fib[a].prefix
<1>1. ASSUME fib' = fib PROVE Goal
  BY <1>1 DEF Allocated
<1>2. ASSUME NEW b, NEW f, NEW g, fib' = UpdateStatus(b, f, g) PROVE Goal
  <2>1. CASE fib' = fib
    BY <1>1, <2>1
  <2>2. CASE b = a /\ fib' # fib
    <3>1. fib[a] \in FibEntry /\ fib[a] # Freed
      BY <1>2, <2>2 DEF UpdateStatus, TypeOK
    <3>2. fib' = [fib EXCEPT ![a].green = IF g THEN @ \cup {f} ELSE @ \ {f}]
      BY <1>2, <2>2 DEF UpdateStatus
    <3>3. fib'[a] = [fib[a] EXCEPT !.green = IF g THEN @ \cup {f} ELSE @ \ {f}]
      BY <3>2 DEF TypeOK
    <3>4. /\ fib'[a].faces = fib[a].faces /\ fib'[a].prefix = fib[a].prefix
          /\ f \in fib[a].faces
      BY <1>2, <2>2, <3>1, <3>3 DEF FibEntry, UpdateStatus
    <3>5. fib'[a] # Freed
      <4>1. fib'[a] \in FibEntry
        BY <2>2, <3>1, <3>3, <3>4 DEF FibEntry
      <4> QED BY <4>1, NullAssumption
    <3> QED BY <3>1, <3>4, <3>5 DEF Allocated
  <2>3. CASE b # a
    <3>1. fib'[a] = fib[a]
      BY <1>2, <2>3 DEF UpdateStatus, TypeOK
    <3> QED BY <3>1 DEF Allocated
  <2> QED BY <2>1, <2>2, <2>3
<1>3. ASSUME NEW f, NEW n, NEW x, NEW life, NEW s, OnInterest(f, n, x, life, s)
      PROVE  fib' = fib
  BY <1>3 DEF OnInterest, Die
<1>4. ASSUME NEW f, NEW n, OnData(f, n) PROVE Goal
  <2>1. CASE Answer(f, n) /\ ~ Die
    BY <1>2, <2>1 DEF Answer
  <2>2. CASE ~ Answer(f, n) \/ Die
    BY <1>1, <1>4, <2>2 DEF OnData, Unsolicited, NotAsked, Die, tables
  <2> QED BY <2>1, <2>2
<1>5. ASSUME NEW f, NEW n, NEW x, NEW code, NEW life, OnNack(f, n, x, code, life)
      PROVE  Goal
  <2>1. CASE NackAsked(f, n, x, code) /\ ~ Die
    <3>1. \E b : fib' = UpdateStatus(b, f, FALSE)
      BY <2>1 DEF NackAsked
    <3> QED BY <1>2, <3>1
  <2>2. CASE ~ NackAsked(f, n, x, code) \/ Die
    BY <1>1, <1>5, <2>2 DEF OnNack, StrayNack, NackNotAsked, Die, tables
  <2> QED BY <2>1, <2>2
<1> HIDE DEF Goal
<1>6. Goal
  BY <1>1, <1>3, <1>4, <1>5 DEF Packet
<1> QED BY <1>6 DEF Goal
(* Removing a face empties the routes it was alone on, and only those. *)
LEMMA RemoveRecordKeeps ==
    ASSUME TypeOK, NEW a \in Allocated, NEW f
    PROVE  /\ fib[a].faces \notin {{}, {f}} => RemoveRecord(a, f) # Freed
           /\ RemoveRecord(a, f) # Freed =>
                 /\ RemoveRecord(a, f).prefix = fib[a].prefix
                 /\ RemoveRecord(a, f).faces = fib[a].faces \ {f}
                 /\ RemoveRecord(a, f).faces # {}
<1>1. fib[a] \in FibEntry /\ fib[a] # Freed /\ Freed \notin FibEntry
  BY NullAssumption DEF TypeOK, Allocated
<1>2. Without(f, fib[a]) \in FibEntry
  BY <1>1 DEF Without, FibEntry
<1>3. /\ Without(f, fib[a]).faces = fib[a].faces \ {f}
      /\ Without(f, fib[a]).prefix = fib[a].prefix
  BY <1>1 DEF Without, FibEntry
<1> QED BY <1>1, <1>2, <1>3 DEF RemoveRecord

(* Applications that never unregister leave no "unreg" to process. *)
OnlySelfreg ==
    /\ \A i \in 1..Len(queue) : queue[i].action = "selfreg"
    /\ manager # Idle => manager.action = "selfreg"

LEMMA OnlySelfregStep ==
    ASSUME ~ AppsUnregister, TypeOK, OnlySelfreg, [Next]_vars
    PROVE  OnlySelfreg'
<1>1. CASE UNCHANGED <<queue, manager>>
  BY <1>1 DEF OnlySelfreg
<1>2. ASSUME NEW f \in LocalFace, NEW action \in {"selfreg", "unreg"},
             NEW p \in RegName, SendRequest(f, action, p)
      PROVE  OnlySelfreg'
  <2>1. action = "selfreg" /\ UNCHANGED manager
    BY <1>2 DEF SendRequest
  <2>2. queue' = Append(queue, [action |-> action, prefix |-> p, face |-> f])
    BY <1>2 DEF SendRequest
  <2>3. queue \in Seq(Message) /\ [action |-> action, prefix |-> p, face |-> f] \in Message
    BY DEF TypeOK, Message, Request, Face
  <2>4. \A i \in 1..Len(queue') : queue'[i].action = "selfreg"
    BY <2>1, <2>2, <2>3 DEF OnlySelfreg
  <2> QED BY <2>1, <2>4 DEF OnlySelfreg
<1>3. CASE TakeRequest
  <2>1. queue \in Seq(Message) /\ queue # << >>
    BY <1>3 DEF TakeRequest, TypeOK
  <2>2. Head(queue) = queue[1] /\ Head(queue) \in Message
    BY <2>1
  <2>3. CASE Die
    BY <1>1, <2>3 DEF Die
  <2>4. CASE ~ Die
    <3>1. manager' = [Head(queue) EXCEPT !.face = GetFace(@)] /\ queue' = Tail(queue)
      BY <1>3, <2>4 DEF TakeRequest
    <3>2. manager'.action = "selfreg"
      BY <2>1, <2>2, <3>1 DEF OnlySelfreg, Message, Request
    <3>3. \A i \in 1..Len(queue') : queue'[i].action = "selfreg"
      BY <2>1, <3>1 DEF OnlySelfreg
    <3> QED BY <3>2, <3>3 DEF OnlySelfreg
  <2> QED BY <2>3, <2>4
<1>4. CASE Manage
  <2>1. queue' = queue /\ manager' \in {manager, Idle}
    BY <1>4 DEF Manage, AddToEntry, AddNewEntry, RemovePrefix, Die
  <2> QED BY <2>1 DEF OnlySelfreg
<1>5. CASE Packet
  BY <1>1, <1>5, PacketScope
<1>6. CASE Hangup \/ Tick \/ Reap \/ UNCHANGED vars
  BY <1>1, <1>6 DEF Hangup, RemoveFace, ReadError, Tick, Reap, Die, vars, management
<1>7. CASE Application
  BY <1>1, <1>2, <1>7 DEF Application, Connect, Leave, management
<1> QED BY <1>3, <1>4, <1>5, <1>6, <1>7 DEF Next

(* Routes have faces, and pending Interests point to routes. *)
RoutesInUse == \A a \in Allocated : fib[a].faces # {}

LEMMA RoutesStay ==
    ASSUME TypeOK, OnlySelfreg, Next, NEW a \in Allocated,
           ~ \E f \in LocalFace : RemoveFace(f)
    PROVE  RouteKept(a)
<1>1. fib[a] \in FibEntry /\ a \in FibNode /\ Freed \notin FibEntry
  BY NullAssumption DEF TypeOK, Allocated
<1>2. CASE UNCHANGED fib
  BY <1>1, <1>2 DEF RouteKept, Allocated
<1>3. CASE Packet
  BY <1>1, <1>3, PacketRoutes DEF RouteKept
<1>4. CASE Application \/ Hangup \/ TakeRequest \/ Tick \/ Reap
  BY <1>2, <1>4 DEF Application, Connect, Leave, SendRequest, Hangup, ReadError,
                    TakeRequest, Tick, Reap, Die, tables
<1>5. CASE Manage
  <2>1. CASE Die
    BY <1>2, <2>1 DEF Die
  <2>2. ASSUME NEW b \in Allocated, NEW f, f \in Face \cup {NoFace},
               fib' = [fib EXCEPT ![b].faces = @ \cup {f}]
        PROVE  RouteKept(a)
    <3>1. CASE b = a
      <4>1. fib'[a] = [fib[a] EXCEPT !.faces = @ \cup {f}]
        BY <1>1, <2>2, <3>1 DEF TypeOK
      <4>2. fib'[a] \in FibEntry
        BY <1>1, <2>2, <4>1 DEF FibEntry
      <4> QED BY <1>1, <4>1, <4>2 DEF RouteKept, Allocated, FibEntry
    <3>2. CASE b # a
      BY <1>1, <2>2, <3>2 DEF RouteKept, Allocated, TypeOK
    <3> QED BY <3>1, <3>2
  <2>3. ASSUME NEW b \in FibNode \ Allocated, NEW v, fib' = [fib EXCEPT ![b] = v]
        PROVE  RouteKept(a)
    BY <1>1, <2>3 DEF RouteKept, Allocated, TypeOK
  <2>4. manager.action = "selfreg" /\ manager.face \in Face \cup {NoFace}
    BY <1>5 DEF Manage, OnlySelfreg, TypeOK, Message, Request
  <2> QED BY <1>5, <2>1, <2>2, <2>3, <2>4
          DEF Manage, AddToEntry, AddNewEntry, FibNodeOf
<1> QED BY <1>3, <1>4, <1>5 DEF Next

LEMMA RoutesInUseStep ==
    ASSUME TypeOK, RoutesInUse, OnlySelfreg, Next
    PROVE  RoutesInUse'
<1> SUFFICES ASSUME NEW a \in Allocated' PROVE fib'[a].faces # {}
  BY DEF RoutesInUse
<1>1. a \in FibNode /\ Freed \notin FibEntry
  BY NullAssumption DEF Allocated
<1>2. CASE \E f \in LocalFace : RemoveFace(f) /\ ~ Die
  <2> PICK f \in LocalFace : RemoveFace(f) /\ ~ Die
    BY <1>2
  <2>1. fib'[a] = RemoveRecord(a, f) /\ fib'[a] # Freed
    BY <1>1 DEF RemoveFace, Allocated
  <2> QED BY <1>1, <2>1, RemoveRecordKeeps DEF RemoveRecord, Allocated
<1>3. CASE a \in Allocated /\ ~ \E f \in LocalFace : RemoveFace(f) /\ ~ Die
  <2>1. CASE Die
    BY <1>3, <2>1 DEF Die, RoutesInUse
  <2>2. CASE ~ Die
    BY <1>3, <2>2, RoutesStay DEF RouteKept, RoutesInUse
  <2> QED BY <2>1, <2>2
<1>4. CASE a \notin Allocated /\ ~ \E f \in LocalFace : RemoveFace(f) /\ ~ Die
  <2>1. fib'[a] # fib[a]
    BY <1>1, <1>4 DEF Allocated
  <2>2. Manage /\ ~ Die
    <3>1. ~ Packet
      BY <1>1, <1>4, PacketRoutes
    <3>2. ~ (Application \/ TakeRequest \/ Tick \/ Reap \/ Die)
      BY <2>1 DEF Application, Connect, Leave, SendRequest, TakeRequest, Tick, Reap,
                  Die, tables
    <3>3. ~ Hangup
      BY <1>4, <2>1, <3>2 DEF Hangup, ReadError, tables
    <3> QED BY <3>1, <3>2, <3>3 DEF Next
  <2>3. manager.action = "selfreg"
    BY <2>2 DEF Manage, OnlySelfreg
  <2>4. CASE \E b \in FibNodeOf(manager.prefix) : AddToEntry(b, manager.face)
    BY <1>1, <1>4, <2>1, <2>2, <2>4 DEF AddToEntry, FibNodeOf, Allocated, TypeOK
  <2>5. CASE AddNewEntry(manager.prefix, manager.face)
    <3> DEFINE new == [prefix |-> manager.prefix, faces |-> {manager.face}, green |-> {}]
    <3>1. PICK b \in FibNode : fib' = [fib EXCEPT ![b] = new]
      BY <2>2, <2>5 DEF AddNewEntry
    <3>2. b = a
      BY <1>1, <2>1, <3>1 DEF TypeOK
    <3>3. fib'[a] = new
      BY <1>1, <3>1, <3>2 DEF TypeOK
    <3> QED BY <3>3
  <2> QED BY <2>2, <2>3, <2>4, <2>5 DEF Manage
<1> QED BY <1>2, <1>3, <1>4

LEMMA PointersStep ==
    ASSUME TypeOK, RoutesInUse, OnlySelfreg, PointersSound, Next
    PROVE  PointersSound'
<1> SUFFICES ASSUME NEW n \in PitNames', pit'[n].fib # NoFib
             PROVE  pit'[n].fib \in Allocated' /\ PrefixOf(fib'[pit'[n].fib].prefix, n)
  BY DEF PointersSound
<1> DEFINE a == pit'[n].fib
<1>1. n \in Name /\ a = Before(n).fib
  BY NextStep DEF PitNames, EntryStep
<1>2. a \in Allocated /\ PrefixOf(fib[a].prefix, n)
  BY <1>1, FibMatchFound DEF Before, NewEntry, PointersSound
<1>3. CASE \E f \in LocalFace : RemoveFace(f) /\ ~ Die
  <2> PICK f \in LocalFace : RemoveFace(f) /\ ~ Die
    BY <1>3
  <2>1. n \in PitNames /\ n \notin Trimmed(f)
    BY <1>1 DEF RemoveFace, PitNames
  <2>2. pit[n].fib = a
    BY <1>1, <2>1 DEF Before
  <2>3. fib[a].faces \notin {{}, {f}}
    BY <1>2, <2>1, <2>2 DEF Trimmed, FacesAt, Allocated, RoutesInUse
  <2>4. fib'[a] = RemoveRecord(a, f)
    BY <1>2 DEF RemoveFace, Allocated
  <2>5. fib'[a] # Freed /\ fib'[a].prefix = fib[a].prefix
    BY <1>2, <2>3, <2>4, RemoveRecordKeeps
  <2> QED BY <1>2, <2>5 DEF Allocated
<1>4. CASE ~ \E f \in LocalFace : RemoveFace(f) /\ ~ Die
  <2>1. CASE Die
    BY <1>2, <2>1 DEF Die, Allocated
  <2>2. CASE ~ Die
    BY <1>2, <1>4, <2>2, RoutesStay DEF RouteKept
  <2> QED BY <2>1, <2>2
<1> QED BY <1>3, <1>4

(* What the routes keep while nobody unregisters. *)
RouteInv == RoutesInUse /\ OnlySelfreg /\ PointersSound

LEMMA RoutesKept ==
    ASSUME ~ AppsUnregister
    PROVE  Spec => []RouteInv
<1>1. Init => RouteInv
  BY DEF Init, RouteInv, RoutesInUse, OnlySelfreg, PointersSound, Allocated, PitNames
<1>2. TypeOK /\ RouteInv /\ [Next]_vars => RouteInv'
  <2> SUFFICES ASSUME TypeOK, RouteInv, [Next]_vars PROVE RouteInv'
    OBVIOUS
  <2>1. CASE UNCHANGED vars
    BY <2>1, OnlySelfregStep
       DEF vars, RouteInv, RoutesInUse, PointersSound, Allocated, PitNames
  <2>2. CASE Next
    BY <2>2, RoutesInUseStep, OnlySelfregStep, PointersStep DEF RouteInv
  <2> QED BY <2>1, <2>2
<1> QED BY <1>1, <1>2, TypeCorrect, PTL DEF Spec

(***************************************************************************)
(* As long as applications do not unregister, the raw pointer m_fibEntry   *)
(* of a pending Interest leads to an existing route for its name: TrimPIT  *)
(* drops every entry whose route goes away with a face.  Routes with no    *)
(* face would escape TrimPIT, so the induction also needs RoutesInUse.     *)
(***************************************************************************)
THEOREM PointersAlwaysSound ==
    ASSUME ~ AppsUnregister
    PROVE  Spec => []PointersSound
<1>1. RouteInv => PointersSound
  BY DEF RouteInv
<1> QED BY <1>1, RoutesKept, PTL

-----------------------------------------------------------------------------
(* Applications that linger are there while their requests are processed. *)
RequestsOpen ==
    /\ \A i \in 1..Len(queue) : face[queue[i].face] = "open" /\ queue[i].face \in Face
    /\ manager # Idle => face[manager.face] = "open" /\ manager.face \in Face

(* An open face stays open unless its application leaves. *)
LEMMA OpenStays ==
    ASSUME TypeOK, Next, NEW g \in Face, face[g] = "open",
           ~ Leave(g) \/ g \notin LocalFace
    PROVE  face'[g] = "open"
<1>1. CASE UNCHANGED face
  BY <1>1
<1>2. CASE Packet
  BY <1>1, <1>2, PacketScope
<1>3. CASE TakeRequest \/ Manage \/ Tick \/ Reap
  BY <1>1, <1>3 DEF TakeRequest, Manage, AddToEntry, AddNewEntry, RemovePrefix,
                    Tick, Reap, Die
<1>4. ASSUME NEW f \in LocalFace, Connect(f) \/ RemoveFace(f) \/ ReadError(f)
      PROVE  face'[g] = "open"
  BY <1>4 DEF Connect, RemoveFace, ReadError, Die, TypeOK
<1>5. ASSUME NEW f \in LocalFace, Leave(f) PROVE face'[g] = "open"
  BY <1>5 DEF Leave, TypeOK
<1> QED BY <1>1, <1>2, <1>3, <1>4, <1>5 DEF Next, Application, SendRequest, Hangup

LEMMA RequestsOpenStep ==
    ASSUME AppsLinger \/ ~ AppsLeave, TypeOK, RequestsOpen, Next
    PROVE  RequestsOpen'
<1>1. ASSUME NEW g \in Face, Mentioned(g), face[g] = "open"
      PROVE  face'[g] = "open"
  BY <1>1, OpenStays DEF Leave
<1>2. queue \in Seq(Message)
  BY DEF TypeOK
<1>3. \A i \in 1..Len(queue) : Mentioned(queue[i].face)
  BY DEF Mentioned
<1>4. manager # Idle => Mentioned(manager.face)
  BY DEF Mentioned
<1>5. \A i \in 1..Len(queue) : face'[queue[i].face] = "open"
  BY <1>1, <1>3 DEF RequestsOpen
<1>6. manager # Idle => face'[manager.face] = "open"
  BY <1>1, <1>4 DEF RequestsOpen
<1>7. CASE queue' = queue /\ manager' \in {manager, Idle}
  BY <1>5, <1>6, <1>7 DEF RequestsOpen
<1>8. ASSUME NEW f \in LocalFace, NEW action \in {"selfreg", "unreg"},
             NEW p \in RegName, SendRequest(f, action, p)
      PROVE  RequestsOpen'
  <2> DEFINE r == [action |-> action, prefix |-> p, face |-> f]
  <2>1. /\ queue' = Append(queue, r) /\ r \in Message /\ f \in Face
        /\ face' = face /\ manager' = manager /\ face[f] = "open"
    BY <1>8 DEF SendRequest, Message, Request, Face
  <2>2. \A i \in 1..Len(queue') :
            \/ i \in 1..Len(queue) /\ queue'[i] = queue[i]
            \/ queue'[i] = r
    BY <1>2, <2>1
  <2> QED BY <2>1, <2>2 DEF RequestsOpen
<1>9. CASE TakeRequest /\ Die
  BY <1>7, <1>9 DEF Die
<1>10. CASE TakeRequest /\ ~ Die
  <2>1. queue # << >> /\ face' = face /\ queue' = Tail(queue)
    BY <1>10 DEF TakeRequest
  <2>2. Head(queue) = queue[1] /\ 1 \in 1..Len(queue) /\ Head(queue) \in Message
    BY <1>2, <2>1
  <2>3. Head(queue).face \in Attached
    BY <2>2 DEF RequestsOpen, Attached
  <2>4. manager' = [Head(queue) EXCEPT !.face = Head(queue).face]
    BY <1>10, <2>2, <2>3 DEF TakeRequest, GetFace, Message, Request
  <2>5. manager'.face = Head(queue).face
    BY <2>2, <2>4 DEF Message, Request
  <2>6. \A i \in 1..Len(queue') : i + 1 \in 1..Len(queue) /\ queue'[i] = queue[i + 1]
    BY <1>2, <2>1
  <2> QED BY <2>1, <2>2, <2>5, <2>6 DEF RequestsOpen
<1>11. CASE Manage
  BY <1>7, <1>11 DEF Manage, AddToEntry, AddNewEntry, RemovePrefix, Die
<1>12. CASE Packet
  BY <1>7, <1>12, PacketScope
<1>13. CASE Hangup \/ Tick \/ Reap
  BY <1>7, <1>13 DEF Hangup, RemoveFace, ReadError, Tick, Reap, Die, management
<1>14. CASE Application
  BY <1>7, <1>8, <1>14 DEF Application, Connect, Leave, management
<1> QED BY <1>9, <1>10, <1>11, <1>12, <1>13, <1>14 DEF Next

(* A face joins a route only by the hand of the management thread. *)
LEMMA RoutesGrow ==
    ASSUME TypeOK, Next, NEW a \in Allocated'
    PROVE  RouteAdded(a)
<1>1. a \in FibNode /\ Freed \notin FibEntry
  BY NullAssumption DEF Allocated
<1>2. fib[a] # Freed => fib[a] \in FibEntry
  BY <1>1 DEF TypeOK
<1>3. CASE UNCHANGED fib
  BY <1>1, <1>3 DEF RouteAdded, Allocated
<1>4. CASE Packet
  BY <1>1, <1>4, PacketRoutes DEF RouteAdded
<1>5. ASSUME NEW f, fib'[a] = RemoveRecord(a, f) PROVE RouteAdded(a)
  <2>1. a \in Allocated
    BY <1>1, <1>5 DEF RemoveRecord, Allocated
  <2>2. fib'[a].faces = fib[a].faces \ {f}
    BY <1>1, <1>5, <2>1, RemoveRecordKeeps DEF Allocated
  <2> QED BY <2>1, <2>2 DEF RouteAdded
<1>6. CASE Hangup
  <2>1. PICK f \in LocalFace : RemoveFace(f) \/ ReadError(f)
    BY <1>6 DEF Hangup
  <2>2. CASE RemoveFace(f) /\ ~ Die
    BY <1>1, <1>5, <2>2 DEF RemoveFace
  <2> QED BY <1>3, <2>1, <2>2 DEF ReadError, Die, tables
<1>7. CASE Application \/ TakeRequest \/ Tick \/ Reap
  BY <1>3, <1>7 DEF Application, Connect, Leave, SendRequest, TakeRequest, Tick, Reap,
                    Die, tables
<1>8. CASE Manage
  <2> DEFINE p == manager.prefix
             f == manager.face
  <2>1. manager # Idle
    BY <1>8 DEF Manage
  <2>2. CASE Die
    BY <1>3, <2>2 DEF Die
  <2>3. ASSUME NEW b \in FibNodeOf(p), AddToEntry(b, f), ~ Die
        PROVE  RouteAdded(a)
    <3>1. fib' = [fib EXCEPT ![b].faces = @ \cup {f}]
      BY <2>3 DEF AddToEntry
    <3>2. CASE b = a
      <4>1. a \in Allocated /\ fib[a] \in FibEntry
        BY <1>2, <2>3, <3>2 DEF FibNodeOf, Allocated
      <4>2. fib'[a].faces = fib[a].faces \cup {f}
        BY <1>1, <3>1, <3>2, <4>1 DEF TypeOK, FibEntry
      <4> QED BY <2>1, <4>1, <4>2 DEF RouteAdded
    <3>3. CASE b # a
      BY <1>1, <3>1, <3>3 DEF RouteAdded, Allocated, TypeOK
    <3> QED BY <3>2, <3>3
  <2>4. ASSUME AddNewEntry(p, f), ~ Die PROVE RouteAdded(a)
    <3> DEFINE new == [prefix |-> p, faces |-> {f}, green |-> {}]
    <3>1. PICK b \in FibNode \ Allocated : fib' = [fib EXCEPT ![b] = new]
      BY <2>4 DEF AddNewEntry
    <3>2. CASE b = a
      <4>1. fib'[a] = new
        BY <1>1, <3>1, <3>2 DEF TypeOK
      <4> QED BY <2>1, <4>1 DEF RouteAdded
    <3>3. CASE b # a
      BY <1>1, <3>1, <3>3 DEF RouteAdded, Allocated, TypeOK
    <3> QED BY <3>2, <3>3
  <2>5. ASSUME RemovePrefix(p, f), ~ Die PROVE RouteAdded(a)
    <3>1. fib'[a] = IF a \in FibNodeOf(p) THEN RemoveRecord(a, f) ELSE fib[a]
      BY <1>1, <2>5 DEF RemovePrefix
    <3>2. CASE fib'[a] = fib[a]
      BY <1>1, <3>2 DEF RouteAdded, Allocated
    <3> QED BY <1>5, <3>1, <3>2
  <2> QED BY <1>8, <2>2, <2>3, <2>4, <2>5 DEF Manage
<1> QED BY <1>4, <1>6, <1>7, <1>8 DEF Next

LEMMA RoutesLiveStep ==
    ASSUME TypeOK, RequestsOpen, RoutesLive, Next
    PROVE  RoutesLive'
<1> SUFFICES ASSUME NEW a \in Allocated', NEW g \in fib'[a].faces
             PROVE  g \in Attached'
  BY DEF RoutesLive
<1>1. a \in FibNode
  BY DEF Allocated
<1>2. g \in Attached
  BY RoutesGrow DEF RouteAdded, RoutesLive, RequestsOpen, Attached
<1>3. CASE \E f \in LocalFace : RemoveFace(f) /\ ~ Die
  <2> PICK f \in LocalFace : RemoveFace(f) /\ ~ Die
    BY <1>3
  <2>1. fib'[a] = RemoveRecord(a, f) /\ fib'[a] # Freed
    BY <1>1 DEF RemoveFace, Allocated
  <2>2. g # f
    <3>1. a \in Allocated
      BY <1>1, <2>1 DEF Allocated, RemoveRecord
    <3> QED BY <2>1, <3>1, RemoveRecordKeeps
  <2>3. Attached \ {f} \subseteq Attached'
    BY DEF RemoveFace, Attached, TypeOK
  <2> QED BY <1>2, <2>2, <2>3
<1>4. CASE ~ \E f \in LocalFace : RemoveFace(f) /\ ~ Die
  BY <1>2, <1>4, AttachedStays DEF Die, Attached
<1> QED BY <1>3, <1>4

(* Requests and routes lead to faces that are there. *)
FacesInv == RequestsOpen /\ RoutesLive

LEMMA FacesKept ==
    ASSUME AppsLinger \/ ~ AppsLeave
    PROVE  Spec => []FacesInv
<1>1. Init => FacesInv
  BY NullAssumption DEF Init, FacesInv, RequestsOpen, RoutesLive, Allocated
<1>2. TypeOK /\ FacesInv /\ [Next]_vars => FacesInv'
  <2> SUFFICES ASSUME TypeOK, FacesInv, [Next]_vars PROVE FacesInv'
    OBVIOUS
  <2>1. CASE UNCHANGED vars
    BY <2>1 DEF vars, FacesInv, RequestsOpen, RoutesLive, Allocated, Attached
  <2>2. CASE Next
    BY <2>2, RequestsOpenStep, RoutesLiveStep DEF FacesInv
  <2> QED BY <2>1, <2>2
<1> QED BY <1>1, <1>2, TypeCorrect, PTL DEF Spec

(***************************************************************************)
(* If applications stay connected until their registrations have been      *)
(* processed, or for good, the FIB never leads to a face that is gone,     *)
(* although the management thread looks a face up in one step and uses it  *)
(* in another.                                                             *)
(***************************************************************************)
THEOREM RoutesAlwaysLive ==
    ASSUME AppsLinger \/ ~ AppsLeave
    PROVE  Spec => []RoutesLive
<1>1. FacesInv => RoutesLive
  BY DEF FacesInv
<1> QED BY <1>1, FacesKept, PTL

-----------------------------------------------------------------------------
(* Flow balance. *)

LEMMA OwedFinite ==
    ASSUME TypeOK, NEW r
    PROVE  IsFiniteSet(Owed(r)) /\ Cardinality(Owed(r)) \in Nat
<1>1. Owed(r) \in SUBSET Name
  BY DEF Owed, PitNames
<1> QED BY <1>1, NameAssumption, FS_Subset, FS_CardinalityType

(* A smaller debt against the same credit. *)
LEMMA LessOwed ==
    ASSUME TypeOK, NEW r \in Requester, Cardinality(Owed(r)) <= credit[r],
           NEW S \in SUBSET Owed(r), NEW c \in Int, credit[r] <= c
    PROVE  Cardinality(S) <= c
<1>1. Cardinality(S) <= Cardinality(Owed(r)) /\ Cardinality(S) \in Nat
  BY OwedFinite, FS_Subset, FS_CardinalityType
<1>2. credit[r] \in Int
  BY DEF TypeOK
<1> QED BY <1>1, <1>2, OwedFinite

(* One Interest more, recorded in one entry. *)
LEMMA OneMoreOwed ==
    ASSUME TypeOK, NEW r \in Requester, Cardinality(Owed(r)) <= credit[r],
           NEW k, NEW S \in SUBSET (Owed(r) \cup {k})
    PROVE  Cardinality(S) <= credit[r] + 1
<1>1. IsFiniteSet(Owed(r) \cup {k}) /\ Cardinality(Owed(r) \cup {k}) <= Cardinality(Owed(r)) + 1
  BY OwedFinite, FS_AddElement
<1>2. Cardinality(S) <= Cardinality(Owed(r) \cup {k}) /\ Cardinality(S) \in Nat
  BY <1>1, FS_Subset, FS_CardinalityType
<1>3. credit[r] \in Int /\ Cardinality(Owed(r) \cup {k}) \in Nat
  BY <1>1, FS_CardinalityType DEF TypeOK
<1> QED BY <1>1, <1>2, <1>3, OwedFinite

(* One entry answered. *)
LEMMA OneLessOwed ==
    ASSUME TypeOK, NEW r \in Requester, Cardinality(Owed(r)) <= credit[r],
           NEW k \in Owed(r), NEW S \in SUBSET (Owed(r) \ {k})
    PROVE  Cardinality(S) <= credit[r] - 1
<1>1. IsFiniteSet(Owed(r) \ {k}) /\ Cardinality(Owed(r) \ {k}) = Cardinality(Owed(r)) - 1
  BY OwedFinite, FS_RemoveElement
<1>2. Cardinality(S) <= Cardinality(Owed(r) \ {k}) /\ Cardinality(S) \in Nat
  BY <1>1, FS_Subset, FS_CardinalityType
<1>3. credit[r] \in Int
  BY DEF TypeOK
<1> QED BY <1>1, <1>2, <1>3, OwedFinite

(* Nobody new waits, and nothing is charged or paid. *)
QuietStep == UNCHANGED credit /\ \A n \in PitNames' : NoNewWaiter(n)

LEMMA QuietFlow ==
    ASSUME TypeOK, FlowBalance, QuietStep
    PROVE  FlowBalance'
<1> SUFFICES ASSUME NEW r \in Requester
             PROVE  Cardinality(Owed(r)') <= credit'[r]
  BY DEF FlowBalance
<1>1. Owed(r)' \subseteq Owed(r)
  BY DEF QuietStep, Owed, NoNewWaiter, Before, NewEntry, PitNames
<1>2. Cardinality(Owed(r)) <= credit[r] /\ credit[r] \in Int
  BY DEF FlowBalance, TypeOK
<1> QED BY <1>1, <1>2, LessOwed DEF QuietStep

LEMMA OnInterestFlow ==
    ASSUME TypeOK, FlowBalance, NEW f \in Face, NEW n \in InterestName,
           NEW x \in Nonce, NEW life \in Lifetime, NEW s \in Source \cup {NoSource},
           OnInterest(f, n, x, life, s)
    PROVE  FlowBalance'
<1> DEFINE key == KeyOf(n)
           old == Found(n, life)
           dup == IsDuplicated(n, x)
           e == Recorded(old, dup, f, x, life, s)
           meta == IF s # NoSource /\ old.sources = {} THEN "freed" ELSE "intact"
           new == {f} \cup ({s} \ {NoSource})
           asked == Charged(credit, new)
<1>1. n \in Name /\ key \in Name /\ old \in PitEntry /\ e \in PitEntry
  BY NameAssumption, KeyOfType, FoundType, RecordedType
<1>2. /\ e.incoming = old.incoming \cup {f}
      /\ e.sources \subseteq old.sources \cup ({s} \ {NoSource})
  BY <1>1 DEF Recorded, PitEntry
<1>3. old.incoming = Before(key).incoming /\ old.sources = Before(key).sources
  BY <1>1, FoundIsBefore
<1> SUFFICES ASSUME NEW r \in Requester
             PROVE  Cardinality(Owed(r)') <= credit'[r]
  BY DEF FlowBalance
<1>4. Cardinality(Owed(r)) <= credit[r] /\ credit[r] \in Int
  BY DEF FlowBalance, TypeOK
<1>5. ASSUME r \in e.incoming \cup e.sources, r \notin new
      PROVE  key \in Owed(r)
  BY <1>1, <1>2, <1>3, <1>5 DEF Before, NewEntry, Owed, PitNames
<1>6. asked[r] = IF r \in new THEN credit[r] + 1 ELSE credit[r]
  BY DEF Charged
<1>7. ASSUME NEW v, pit' = [pit EXCEPT ![key] = v], credit' = asked,
             v.incoming \subseteq e.incoming, v.sources = e.sources
      PROVE  Cardinality(Owed(r)') <= credit'[r]
  <2>1. pit' = [m \in Name |-> IF m = key THEN v ELSE pit[m]]
    BY <1>1, <1>7 DEF TypeOK
  <2>2. Owed(r)' \subseteq Owed(r) \cup {key}
    BY <2>1 DEF Owed, PitNames
  <2>3. r \notin new => Owed(r)' \subseteq Owed(r)
    BY <1>5, <1>7, <2>1 DEF Owed, PitNames
  <2>4. CASE r \in new
    BY <1>4, <1>6, <1>7, <2>2, <2>4, OneMoreOwed
  <2>5. CASE r \notin new
    BY <1>4, <1>6, <1>7, <2>3, <2>5, LessOwed
  <2> QED BY <2>4, <2>5
<1>8. ASSUME pit' = [pit EXCEPT ![key] = NoEntry], credit' = Repaid(asked, Served(e))
      PROVE  Cardinality(Owed(r)') <= credit'[r]
  <2>1. Owed(r)' \subseteq Owed(r) \ {key}
    BY <1>1, <1>8 DEF Owed, PitNames, TypeOK
  <2>2. credit'[r] = IF r \in Served(e) THEN asked[r] - 1 ELSE asked[r]
    BY <1>8 DEF Repaid, Charged
  <2>3. Served(e) \subseteq e.incoming \cup e.sources
    BY DEF Served
  <2>4. CASE r \in Served(e) /\ r \notin new
    <3>1. key \in Owed(r)
      BY <1>5, <2>3, <2>4
    <3> QED BY <1>4, <1>6, <2>1, <2>2, <2>4, <3>1, OneLessOwed
  <2>5. CASE r \notin Served(e) \/ r \in new
    <3>1. credit'[r] \in Int /\ credit[r] <= credit'[r]
      BY <1>4, <1>6, <2>2, <2>5
    <3> QED BY <1>4, <2>1, <3>1, LessOwed
  <2> QED BY <2>4, <2>5
<1>9. ASSUME pit' = [pit EXCEPT ![key] = e], credit' = asked
      PROVE  Cardinality(Owed(r)') <= credit'[r]
  BY <1>7, <1>9
<1>10. ASSUME NEW F, Sendable(F), pit' = [pit EXCEPT ![key] = Propagated(e, F)],
              credit' = asked
       PROVE  Cardinality(Owed(r)') <= credit'[r]
  BY <1>1, <1>7, <1>10, PropagatedStep
<1>11. ASSUME Die PROVE Cardinality(Owed(r)') <= credit'[r]
  BY <1>4, <1>11 DEF Die, Owed, PitNames
<1> HIDE DEF key, old, dup, e, meta, new, asked
<1> QED BY <1>8, <1>9, <1>10, <1>11
        DEF OnInterest, Survives, key, old, dup, e, meta, new, asked

LEMMA OnDataFlow ==
    ASSUME TypeOK, FlowBalance, NEW f \in Face, NEW n \in InterestName, OnData(f, n)
    PROVE  FlowBalance'
<1>1. n \in Name
  BY NameAssumption
<1>2. CASE Answer(f, n) /\ ~ Die
  <2> SUFFICES ASSUME NEW r \in Requester
               PROVE  Cardinality(Owed(r)') <= credit'[r]
    BY DEF FlowBalance
  <2>1. Cardinality(Owed(r)) <= credit[r] /\ credit[r] \in Int
    BY DEF FlowBalance, TypeOK
  <2>2. /\ pit' = [pit EXCEPT ![n] = NoEntry]
        /\ credit'[r] = IF r \in Served(pit[n]) THEN credit[r] - 1 ELSE credit[r]
    BY <1>2 DEF Answer, Repaid
  <2>3. Owed(r)' \subseteq Owed(r) \ {n}
    BY <1>1, <2>2 DEF Owed, PitNames, TypeOK
  <2>4. r \in Served(pit[n]) => n \in Owed(r)
    BY <1>1, <1>2 DEF Answer, Served, Owed, PitNames
  <2>5. CASE r \in Served(pit[n])
    BY <2>1, <2>2, <2>3, <2>4, <2>5, OneLessOwed
  <2>6. CASE r \notin Served(pit[n])
    BY <2>1, <2>2, <2>3, <2>6, LessOwed
  <2> QED BY <2>5, <2>6
<1>3. CASE Unsolicited(f, n) \/ NotAsked(f, n) \/ Die
  <2>1. UNCHANGED <<pit, credit>>
    BY <1>3 DEF Unsolicited, NotAsked, Die, tables
  <2> QED BY <2>1 DEF FlowBalance, Owed, PitNames
<1> QED BY <1>2, <1>3 DEF OnData

LEMMA SamePitQuiet ==
    ASSUME UNCHANGED <<pit, credit>>
    PROVE  QuietStep
BY DEF QuietStep, NoNewWaiter, Before, PitNames

(* A nack adds no waiter, and nothing is sent to one. *)
LEMMA OnNackQuiet ==
    ASSUME TypeOK, NEW f \in Face, NEW n \in InterestName,
           NEW x \in Nonce, NEW code \in NackCode, NEW life \in Lifetime,
           OnNack(f, n, x, code, life)
    PROVE  QuietStep
<1> DEFINE key == KeyOf(n)
           e == Nacked(pit[key], f, code)
           fb == UpdateStatus(e.fib, f, FALSE)
<1>1. n \in Name /\ key \in Name
  BY NameAssumption, KeyOfType
<1>2. credit' = credit
  BY DEF OnNack, StrayNack, NackNotAsked, NackAsked, Die
<1>3. ASSUME NEW v, pit' = [pit EXCEPT ![key] = v],
             v.incoming \subseteq Before(key).incoming, v.sources = Before(key).sources
      PROVE  QuietStep
  BY <1>1, <1>2, <1>3 DEF QuietStep, NoNewWaiter, Before, PitNames, TypeOK
<1>4. CASE UNCHANGED pit
  BY <1>2, <1>4, SamePitQuiet
<1>5. CASE StrayNack(f, n, x, life)
  <2> DEFINE v == [Found(n, life) EXCEPT !.nonces = @ \cup {x}]
  <2>1. v.incoming = Before(key).incoming /\ v.sources = Before(key).sources
    BY <1>1, FoundType, FoundIsBefore DEF PitEntry
  <2>2. pit' = [pit EXCEPT ![key] = v]
    BY <1>5 DEF StrayNack
  <2> HIDE DEF v
  <2> QED BY <1>3, <2>1, <2>2
<1>6. CASE NackAsked(f, n, x, code) /\ ~ Die
  <2>1. pit[key] \in PitEntry /\ Before(key) = pit[key]
    BY <1>1, <1>6, KeyOfType DEF NackAsked, IsDuplicated, TypeOK, PitNames, Before
  <2>2. e \in PitEntry /\ e.sources = pit[key].sources
        /\ e.incoming \subseteq pit[key].incoming
    BY <2>1, NackedType DEF Nacked, PitEntry
  <2>3. ASSUME pit' = [pit EXCEPT ![key] = e] PROVE QuietStep
    BY <1>3, <2>1, <2>2, <2>3
  <2>4. ASSUME NEW F, Sendable(F), pit' = [pit EXCEPT ![key] = Propagated(e, F)]
        PROVE  QuietStep
    <3> DEFINE v == Propagated(e, F)
    <3>1. v.sources = Before(key).sources /\ v.incoming \subseteq Before(key).incoming
      BY <2>1, <2>2, <2>4, PropagatedStep
    <3> HIDE DEF v
    <3> QED BY <1>3, <2>4, <3>1 DEF v
  <2> HIDE DEF key, e, fb
  <2> QED BY <1>6, <2>3, <2>4 DEF NackAsked, Survives, key, e, fb
<1> QED BY <1>4, <1>5, <1>6 DEF OnNack, NackNotAsked, NackAsked, Die, tables

LEMMA HangupTimeQuiet ==
    ASSUME TypeOK, Hangup \/ Tick \/ Reap
    PROVE  QuietStep
<1>1. UNCHANGED credit
  BY DEF Hangup, RemoveFace, ReadError, Tick, Reap, Die, management
<1>2. ASSUME NEW m \in PitNames' PROVE NoNewWaiter(m)
  <2>1. m \in Name
    BY DEF PitNames
  <2>2. CASE pit'[m] = pit[m]
    BY <2>1, <2>2 DEF NoNewWaiter, Before, PitNames
  <2>3. CASE m \in PitNames /\ pit'[m] = [pit[m] EXCEPT !.ttl = @ - 1]
    <3>1. pit[m] \in PitEntry
      BY <2>1, <2>3 DEF PitNames, TypeOK
    <3> QED BY <2>3, <3>1 DEF NoNewWaiter, Before, PitEntry
  <2>4. ASSUME NEW f, m \in PitNames, pit'[m] = RemoveAllReferencesToFace(pit[m], f)
        PROVE  NoNewWaiter(m)
    <3>1. pit[m] \in PitEntry
      BY <2>1, <2>4 DEF PitNames, TypeOK
    <3> QED BY <2>4, <3>1
            DEF NoNewWaiter, Before, PitEntry, RemoveAllReferencesToFace
  <2>5. CASE Tick \/ Reap
    BY <2>1, <2>2, <2>3, <2>5 DEF Tick, Reap, PitNames
  <2>6. CASE Hangup
    <3>1. PICK f \in LocalFace : RemoveFace(f) \/ ReadError(f)
      BY <2>6 DEF Hangup
    <3>2. CASE ReadError(f) \/ Die
      BY <2>2, <3>2 DEF ReadError, tables, Die
    <3>3. CASE RemoveFace(f) /\ ~ Die
      BY <2>1, <2>4, <3>3 DEF RemoveFace, PitNames
    <3> QED BY <3>1, <3>2, <3>3
  <2> QED BY <2>5, <2>6
<1> QED BY <1>1, <1>2 DEF QuietStep

LEMMA OthersQuiet ==
    ASSUME TypeOK, Application \/ Hangup \/ TakeRequest \/ Manage \/ Tick \/ Reap
    PROVE  QuietStep
<1>1. CASE Application \/ TakeRequest \/ Manage
  <2>1. UNCHANGED <<pit, credit>>
    BY <1>1 DEF Application, Connect, Leave, SendRequest, TakeRequest, Manage,
                AddToEntry, AddNewEntry, RemovePrefix, Die, tables
  <2> QED BY <2>1, SamePitQuiet
<1> QED BY <1>1, HangupTimeQuiet

(***************************************************************************)
(* However Interests are aggregated, retransmitted, nacked, given up,      *)
(* expired or answered from the cache, no face and no client behind a hub  *)
(* is ever owed more contents than it has sent Interests for.              *)
(***************************************************************************)
THEOREM FlowAlwaysBalanced == Spec => []FlowBalance
<1>1. Init => FlowBalance
  <2> SUFFICES ASSUME Init, NEW r \in Requester
               PROVE  Cardinality(Owed(r)) <= credit[r]
    BY DEF FlowBalance
  <2>1. Owed(r) = {} /\ credit[r] = 0
    BY DEF Init, Owed, PitNames
  <2> QED BY <2>1, FS_EmptySet
<1>2. TypeOK /\ FlowBalance /\ [Next]_vars => FlowBalance'
  <2> SUFFICES ASSUME TypeOK, FlowBalance, [Next]_vars PROVE FlowBalance'
    OBVIOUS
  <2>1. CASE UNCHANGED vars
    BY <2>1 DEF vars, FlowBalance, Owed, PitNames
  <2>2. CASE Packet
    BY <2>2, OnInterestFlow, OnDataFlow, OnNackQuiet, QuietFlow DEF Packet
  <2>3. CASE Application \/ Hangup \/ TakeRequest \/ Manage \/ Tick \/ Reap
    BY <2>3, OthersQuiet, QuietFlow
  <2> QED BY <2>1, <2>2, <2>3 DEF Next
<1> QED BY <1>1, <1>2, TypeCorrect, PTL DEF Spec

-----------------------------------------------------------------------------
(* What happens to the entry of an Interest. *)

(* The route of an Interest's entry, new or old, is there. *)
LEMMA FoundRoute ==
    ASSUME TypeOK, RouteInv, NEW n \in Name, NEW life \in Lifetime
    PROVE  Found(n, life).fib \in Allocated \cup {NoFib}
<1>1. KeyOf(n) \in Name
  BY KeyOfType
<1>2. Found(n, life).fib = Before(KeyOf(n)).fib
  BY FoundIsBefore
<1> QED BY <1>1, <1>2, FibMatchFound DEF Before, NewEntry, RouteInv, PointersSound

(* Whom an Interest is forwarded to, when it is: never to nobody. *)
LEMMA SomebodyToAsk ==
    ASSUME TypeOK, RouteInv, NEW f \in Monitored, NEW n \in Name,
           NEW life \in Lifetime, NEW e, e.fib = Found(n, life).fib,
           NEW F \in Targets(e, fib)
    PROVE  F # {}
<1>1. CASE ViaGreen(e, fib) # {}
  BY <1>1 DEF Targets
<1>2. CASE ViaGreen(e, fib) = {} /\ e.fib = NoFib
  BY <1>2 DEF Targets, Flood, Attached, Monitored
<1>3. CASE ViaGreen(e, fib) = {} /\ e.fib # NoFib
  <2>1. FacesAt(fib, e.fib) # {}
    BY <1>3, FoundRoute DEF RouteInv, RoutesInUse, FacesAt, Allocated
  <2> QED BY <1>3, <2>1 DEF Targets, Flood
<1> QED BY <1>1, <1>2, <1>3

(* The four outcomes of OnInterest for the PIT. *)
LEMMA OnInterestOutcome ==
    ASSUME NEW f, NEW n, NEW x, NEW life, NEW s, OnInterest(f, n, x, life, s)
    PROVE  LET key == KeyOf(n)
               dup == IsDuplicated(n, x)
               e == Recorded(Found(n, life), dup, f, x, life, s)
           IN  \/ pit' = pit
               \/ pit' = [pit EXCEPT ![key] = NoEntry]
               \/ dup /\ pit' = [pit EXCEPT ![key] = e]
               \/ /\ ~ dup
                  /\ \E F \in Targets(e, fib) :
                        Sendable(F) /\ pit' = [pit EXCEPT ![key] = Propagated(e, F)]
BY DEF OnInterest, Die, Survives

(* An entry that only ages or forgets a face: it asks nobody. *)
Idles(n) ==
    /\ n \in PitNames /\ pit'[n].nonces = pit[n].nonces
    /\ pit'[n].outgoing \subseteq pit[n].outgoing /\ pit'[n].retx = pit[n].retx

LEMMA AskedByInterestsOnly ==
    ASSUME NackCode = {}, TypeOK, [Next]_vars,
           ~ \E f \in Face, n \in InterestName, x \in Nonce, life \in Lifetime,
                s \in Source \cup {NoSource} : OnInterest(f, n, x, life, s),
           NEW m \in PitNames'
    PROVE  Idles(m)
<1>1. m \in Name
  BY DEF PitNames
<1>2. ASSUME pit'[m] = pit[m] PROVE Idles(m)
  BY <1>1, <1>2 DEF Idles, PitNames
<1>3. ASSUME m \in PitNames, NEW f, pit'[m] = RemoveAllReferencesToFace(pit[m], f)
      PROVE  Idles(m)
  <2>1. pit[m] \in PitEntry
    BY <1>1, <1>3 DEF PitNames, TypeOK
  <2> QED BY <1>3, <2>1 DEF Idles, RemoveAllReferencesToFace, PitEntry
<1>4. ASSUME m \in PitNames, pit'[m] = [pit[m] EXCEPT !.ttl = @ - 1]
      PROVE  Idles(m)
  <2>1. pit[m] \in PitEntry
    BY <1>1, <1>4 DEF PitNames, TypeOK
  <2> QED BY <1>4, <2>1 DEF Idles, PitEntry
<1>5. CASE Packet
  <2>1. PICK f \in Face, n \in InterestName : OnData(f, n)
    BY <1>5 DEF Packet
  <2>2. pit'[m] = pit[m]
    BY <1>1, <2>1, NameAssumption
       DEF OnData, Unsolicited, NotAsked, Answer, Die, PitNames, tables, TypeOK
  <2> QED BY <1>2, <2>2
<1>6. CASE Hangup
  <2>1. PICK f \in LocalFace : RemoveFace(f) \/ ReadError(f)
    BY <1>6 DEF Hangup
  <2>2. CASE RemoveFace(f) /\ ~ Die
    BY <1>1, <1>3, <2>2 DEF RemoveFace, PitNames
  <2>3. CASE ReadError(f) \/ Die
    BY <1>2, <2>3 DEF ReadError, tables, Die
  <2> QED BY <2>1, <2>2, <2>3
<1>7. CASE Tick \/ Reap
  BY <1>1, <1>2, <1>4, <1>7 DEF Tick, Reap, PitNames
<1>8. CASE Application \/ TakeRequest \/ Manage \/ UNCHANGED vars
  BY <1>2, <1>8 DEF Application, Connect, Leave, SendRequest, TakeRequest, Manage,
                    AddToEntry, AddNewEntry, RemovePrefix, Die, tables, vars
<1> QED BY <1>5, <1>6, <1>7, <1>8 DEF Next

(***************************************************************************)
(* A nonce the entry knows changes nothing but who waits and for how long; *)
(* an Interest that is sent out adds a nonce to an entry that lacked it.   *)
(* With sound routes it is sent to somebody.                               *)
(***************************************************************************)
Asks(n) ==
    /\ n \in PitNames => pit'[n].nonces # pit[n].nonces
    /\ RouteInv => pit'[n].outgoing # {}

LEMMA OnInterestAsks ==
    ASSUME TypeOK, NEW f \in Face, NEW n \in InterestName, NEW x \in Nonce,
           NEW life \in Lifetime, NEW s \in Source \cup {NoSource},
           OnInterest(f, n, x, life, s), NEW m \in PitNames'
    PROVE  Idles(m) \/ Asks(m)
<1> DEFINE key == KeyOf(n)
           old == Found(n, life)
           dup == IsDuplicated(n, x)
           e == Recorded(old, dup, f, x, life, s)
<1>1. n \in Name /\ key \in Name /\ m \in Name /\ old \in PitEntry /\ e \in PitEntry
  BY NameAssumption, KeyOfType, FoundType, RecordedType DEF PitNames
<1>2. e.fib = old.fib /\ e.nonces = old.nonces \cup {x}
      /\ e.outgoing = old.outgoing /\ e.retx = old.retx
  BY <1>1 DEF Recorded, PitEntry
<1>3. key \in PitNames => ~ IsNew(n) /\ old = pit[key]
  <2>1. PrefixOf(n, n)
    BY <1>1, NameAssumption DEF PrefixOf
  <2>2. IsNew(n) => key = n /\ n \notin PitNames
    BY <2>1 DEF KeyOf, IsNew, HasPrefixIn, Prefixing
  <2> QED BY <2>2 DEF Found
<1>4. dup => key \in PitNames /\ x \in pit[key].nonces
  BY <1>1, KeyOfType DEF IsDuplicated
<1>5. ASSUME pit'[m] = pit[m] PROVE Idles(m)
  BY <1>1, <1>5 DEF Idles, PitNames
<1>6. ASSUME pit' = [pit EXCEPT ![key] = NoEntry] PROVE Idles(m)
  BY <1>1, <1>5, <1>6 DEF TypeOK, PitNames
<1>7. ASSUME dup, pit' = [pit EXCEPT ![key] = e] PROVE Idles(m)
  BY <1>1, <1>2, <1>3, <1>4, <1>5, <1>7 DEF Idles, TypeOK
<1>8. ASSUME ~ dup, NEW F \in Targets(e, fib), pit' = [pit EXCEPT ![key] = Propagated(e, F)]
      PROVE  Idles(m) \/ Asks(m)
  <2>1. RouteInv => F # {}
    <3>1. f \in Monitored
      BY DEF OnInterest, CanReceive
    <3> HIDE DEF e
    <3> QED BY <1>1, <1>2, <3>1, SomebodyToAsk
  <2>2. /\ Propagated(e, F).nonces = e.nonces
        /\ F # {} => Propagated(e, F).outgoing = e.outgoing \cup F
    BY <1>1 DEF Propagated, AddOutgoing, GiveUpInterest, PitEntry
  <2>3. CASE m = key
    <3>1. pit'[m] = Propagated(e, F)
      BY <1>1, <1>8, <2>3 DEF TypeOK
    <3>2. m \in PitNames => x \notin pit[m].nonces
      BY <1>3, <1>8, <2>3 DEF IsDuplicated
    <3> HIDE DEF e
    <3> QED BY <1>2, <2>1, <2>2, <3>1, <3>2 DEF Asks
  <2>4. CASE m # key
    BY <1>1, <1>5, <1>8, <2>4 DEF TypeOK
  <2> QED BY <2>3, <2>4
<1> HIDE DEF key, old, dup, e
<1> QED BY <1>5, <1>6, <1>7, <1>8, OnInterestOutcome DEF key, old, dup, e

LEMMA AskingStep ==
    ASSUME NackCode = {}, TypeOK, [Next]_vars, NEW m \in PitNames'
    PROVE  Idles(m) \/ Asks(m)
BY AskedByInterestsOnly, OnInterestAsks

(***************************************************************************)
(* A nonce the entry has seen, from whatever face it comes back, is never  *)
(* a reason to send the Interest on: without nacks no loop keeps itself    *)
(* going while the entry lives.                                            *)
(***************************************************************************)
THEOREM NoncesForwardedOnce ==
    ASSUME NackCode = {}
    PROVE  Spec => ForwardedOnce
<1>1. TypeOK /\ [Next]_vars => [ForwardedOnceStep]_vars
  BY AskingStep DEF ForwardedOnceStep, Idles, Asks
<1> QED BY <1>1, TypeCorrect, PTL DEF Spec, ForwardedOnce

(***************************************************************************)
(* An Interest with a nonce the daemon has not seen is answered or asked   *)
(* of somebody: the routes that are looked up have a face, and with no     *)
(* route at least the face it came from is there to be flooded.            *)
(***************************************************************************)
THEOREM FreshAlwaysAsked ==
    ASSUME NackCode = {}, ~ AppsUnregister
    PROVE  Spec => FreshIsAsked
<1>1. TypeOK /\ RouteInv /\ [Next]_vars => [FreshIsAskedStep]_vars
  BY AskingStep DEF FreshIsAskedStep, Idles, Asks
<1> QED BY <1>1, TypeCorrect, RoutesKept, PTL DEF Spec, FreshIsAsked
-----------------------------------------------------------------------------
(* What could kill the daemon, and does not. *)

(* A green face of a route is a face of that route. *)
GreenInRoute == \A a \in Allocated : fib[a].green \subseteq fib[a].faces

LEMMA UpdateStatusEffect ==
    ASSUME TypeOK, NEW a \in FibNode, NEW b, NEW f \in Face, NEW isGreen \in BOOLEAN
    PROVE  LET fb == UpdateStatus(b, f, isGreen)
           IN  /\ fb[a] = Freed <=> fib[a] = Freed
               /\ fib[a] # Freed =>
                     /\ fb[a].faces = fib[a].faces
                     /\ \/ fb[a].green \subseteq fib[a].green
                        \/ isGreen /\ fb[a].green \subseteq fib[a].green \cup {f}
                                   /\ f \in fib[a].faces
<1> DEFINE fb == UpdateStatus(b, f, isGreen)
<1>1. CASE fb[a] = fib[a]
  BY <1>1
<1>2. CASE fb[a] # fib[a]
  <2>1. b = a /\ fib[a] # Freed /\ f \in fib[a].faces
    BY <1>2 DEF UpdateStatus, TypeOK
  <2>2. fib[a] \in FibEntry
    BY <2>1 DEF TypeOK
  <2>3. fb[a] = [fib[a] EXCEPT !.green = IF isGreen THEN @ \cup {f} ELSE @ \ {f}]
    BY <1>2, <2>1 DEF UpdateStatus, TypeOK
  <2>4. fb[a] \in FibEntry
    BY <2>2, <2>3 DEF FibEntry
  <2>5. fb[a].faces = fib[a].faces
        /\ fb[a].green = IF isGreen THEN fib[a].green \cup {f} ELSE fib[a].green \ {f}
    BY <2>2, <2>3 DEF FibEntry
  <2>6. fb[a] # Freed
    BY <2>4, NullAssumption
  <2> QED BY <2>1, <2>5, <2>6
<1> QED BY <1>1, <1>2

LEMMA PacketGreen ==
    ASSUME TypeOK, GreenInRoute, Packet, NEW a \in Allocated'
    PROVE  fib'[a].green \subseteq fib'[a].faces
<1>1. a \in FibNode
  BY DEF Allocated
<1>2. ASSUME fib' = fib PROVE fib'[a].green \subseteq fib'[a].faces
  BY <1>2 DEF GreenInRoute, Allocated
<1>3. ASSUME NEW f \in Face, NEW b, NEW isGreen \in BOOLEAN,
             fib' = UpdateStatus(b, f, isGreen)
      PROVE  fib'[a].green \subseteq fib'[a].faces
  <2>1. fib'[a] # Freed
    BY DEF Allocated
  <2>2. fib[a] # Freed /\ fib'[a].faces = fib[a].faces
    BY <1>1, <1>3, <2>1, UpdateStatusEffect
  <2>3. fib'[a].green \subseteq fib[a].green \cup {f}
        /\ (fib'[a].green \subseteq fib[a].green \/ f \in fib[a].faces)
    BY <1>1, <1>3, <2>2, UpdateStatusEffect
  <2>4. fib[a].green \subseteq fib[a].faces
    BY <1>1, <2>2 DEF GreenInRoute, Allocated
  <2> QED BY <2>2, <2>3, <2>4
<1>4. ASSUME NEW f \in Face, NEW n \in InterestName, OnData(f, n)
      PROVE  fib'[a].green \subseteq fib'[a].faces
  <2>1. fib' = fib \/ fib' = UpdateStatus(pit[n].fib, f, TRUE)
    BY <1>4 DEF OnData, Unsolicited, NotAsked, Answer, Die, tables
  <2> QED BY <1>2, <1>3, <2>1
<1>5. ASSUME NEW f \in Face, NEW n, NEW x, NEW code, NEW life, OnNack(f, n, x, code, life)
      PROVE  fib'[a].green \subseteq fib'[a].faces
  <2>1. fib' = fib \/ \E b : fib' = UpdateStatus(b, f, FALSE)
    BY <1>5 DEF OnNack, StrayNack, NackNotAsked, NackAsked, Die, tables
  <2> QED BY <1>2, <1>3, <2>1
<1>6. ASSUME NEW f, NEW n, NEW x, NEW life, NEW s, OnInterest(f, n, x, life, s)
      PROVE  fib'[a].green \subseteq fib'[a].faces
  <2>1. fib' = fib
    BY <1>6 DEF OnInterest, Die
  <2> QED BY <1>2, <2>1
<1> QED BY <1>4, <1>5, <1>6 DEF Packet

LEMMA GreenStep ==
    ASSUME TypeOK, GreenInRoute, [Next]_vars
    PROVE  GreenInRoute'
<1> SUFFICES ASSUME NEW a \in Allocated' PROVE fib'[a].green \subseteq fib'[a].faces
  BY DEF GreenInRoute
<1>1. a \in FibNode /\ fib'[a] # Freed
  BY DEF Allocated
<1>2. ASSUME fib'[a] = fib[a] PROVE fib'[a].green \subseteq fib'[a].faces
  BY <1>1, <1>2 DEF GreenInRoute, Allocated
<1>3. ASSUME NEW f, fib'[a] = RemoveRecord(a, f)
      PROVE  fib'[a].green \subseteq fib'[a].faces
  <2>1. fib[a] \in FibEntry /\ fib[a] # Freed /\ fib'[a] = Without(f, fib[a])
    BY <1>1, <1>3 DEF RemoveRecord, TypeOK
  <2>2. fib'[a].green = fib[a].green \ {f} /\ fib'[a].faces = fib[a].faces \ {f}
    BY <2>1 DEF Without, FibEntry
  <2>3. fib[a].green \subseteq fib[a].faces
    BY <1>1, <2>1 DEF GreenInRoute, Allocated
  <2> QED BY <2>2, <2>3
<1>4. CASE Packet
  BY <1>4, PacketGreen
<1>5. CASE Hangup
  <2>1. PICK f \in LocalFace : RemoveFace(f) \/ ReadError(f)
    BY <1>5 DEF Hangup
  <2>2. CASE RemoveFace(f) /\ ~ Die
    BY <1>1, <1>3, <2>2 DEF RemoveFace
  <2> QED BY <1>2, <2>1, <2>2 DEF ReadError, Die, tables
<1>6. CASE Application \/ TakeRequest \/ Tick \/ Reap \/ UNCHANGED vars
  BY <1>2, <1>6 DEF Application, Connect, Leave, SendRequest, TakeRequest, Tick, Reap,
                    Die, tables, vars
<1>7. CASE Manage
  <2> DEFINE p == manager.prefix
             f == manager.face
  <2>1. CASE Die
    BY <1>2, <2>1 DEF Die
  <2>2. ASSUME NEW b \in FibNodeOf(p), AddToEntry(b, f), ~ Die
        PROVE  fib'[a].green \subseteq fib'[a].faces
    <3>1. fib' = [fib EXCEPT ![b].faces = @ \cup {f}]
      BY <2>2 DEF AddToEntry
    <3>2. CASE b = a
      <4>1. a \in Allocated /\ fib[a] \in FibEntry
        BY <1>1, <2>2, <3>2 DEF FibNodeOf, Allocated, TypeOK
      <4>2. fib'[a].faces = fib[a].faces \cup {f} /\ fib'[a].green = fib[a].green
        BY <1>1, <3>1, <3>2, <4>1 DEF TypeOK, FibEntry
      <4> QED BY <4>1, <4>2 DEF GreenInRoute
    <3>3. CASE b # a
      BY <1>1, <1>2, <3>1, <3>3 DEF TypeOK
    <3> QED BY <3>2, <3>3
  <2>3. ASSUME AddNewEntry(p, f), ~ Die PROVE fib'[a].green \subseteq fib'[a].faces
    <3> DEFINE new == [prefix |-> p, faces |-> {f}, green |-> {}]
    <3>1. PICK b \in FibNode \ Allocated : fib' = [fib EXCEPT ![b] = new]
      BY <2>3 DEF AddNewEntry
    <3>2. fib'[a] \in {new, fib[a]}
      BY <1>1, <3>1 DEF TypeOK
    <3>3. new.green = {}
      OBVIOUS
    <3> HIDE DEF new
    <3> QED BY <1>2, <3>2, <3>3
  <2>4. ASSUME RemovePrefix(p, f), ~ Die PROVE fib'[a].green \subseteq fib'[a].faces
    <3>1. fib'[a] = IF a \in FibNodeOf(p) THEN RemoveRecord(a, f) ELSE fib[a]
      BY <1>1, <2>4 DEF RemovePrefix
    <3> QED BY <1>2, <1>3, <3>1
  <2> QED BY <1>7, <2>1, <2>2, <2>3, <2>4 DEF Manage
<1> QED BY <1>4, <1>5, <1>6, <1>7 DEF Next
(***************************************************************************)
(* Applications that leave the tables in order: they stay until their      *)
(* registrations are processed, or for good, and do not unregister.        *)
(***************************************************************************)
Orderly == ~ AppsUnregister /\ (AppsLinger \/ ~ AppsLeave)

PlainStore == HubFace = {} => stale = {}

Known == TypeOK /\ RouteInv /\ FacesInv /\ PitFacesAttached

SoundTables == Known /\ GreenInRoute /\ PlainStore

(* Faces of the daemon can be sent to. *)
LEMMA AttachedSendable ==
    ASSUME ~ Reason, NEW F \in SUBSET Attached
    PROVE  Sendable(F)
BY FaceAssumption DEF Reason, Broken, Sendable, Attached

(* No route has the NULL face, and no pointer is stale. *)
LEMMA RoutesHarmless ==
    ASSUME Known, NEW a \in Allocated \cup {NoFib}
    PROVE  ~ Dangling(a) /\ ~ Poisoned(a)
<1>1. NoFace \notin Attached
  BY FaceAssumption DEF Attached
<1> QED BY <1>1 DEF Known, FacesInv, RoutesLive, Dangling, Poisoned, FacesAt, Allocated

(* A nack may change the colour of a face before the Interest goes out. *)
LEMMA TargetsAttached ==
    ASSUME SoundTables, NEW e, e.fib \in Allocated \cup {NoFib}, NEW fb,
           \A a \in Allocated : /\ fb[a] # Freed
                                /\ fb[a].faces = fib[a].faces
                                /\ fb[a].green \subseteq fib[a].green,
           NEW F \in Targets(e, fb)
    PROVE  F \subseteq Attached
<1>1. CASE e.fib = NoFib
  BY <1>1 DEF Targets, ViaGreen, Flood
<1>2. CASE e.fib \in Allocated /\ e.fib # NoFib
  <2>1. FacesAt(fb, e.fib) \subseteq Attached
    BY <1>2 DEF FacesAt, SoundTables, Known, FacesInv, RoutesLive
  <2>2. GreenAt(fb, e.fib) \subseteq Attached
    BY <1>2 DEF GreenAt, SoundTables, Known, FacesInv, RoutesLive, GreenInRoute
  <2>3. ViaGreen(e, fb) \subseteq Attached /\ Flood(e, fb) \subseteq Attached
    BY <1>2, <2>1, <2>2 DEF ViaGreen, Flood
  <2> QED BY <2>3 DEF Targets
<1> QED BY <1>1, <1>2

LEMMA OnInterestAlive ==
    ASSUME SoundTables, ~ Reason, NEW f \in Face, NEW n \in InterestName,
           NEW x \in Nonce, NEW life \in Lifetime, NEW s \in Source \cup {NoSource},
           OnInterest(f, n, x, life, s)
    PROVE  up' = up
<1> DEFINE key == KeyOf(n)
           old == Found(n, life)
           dup == IsDuplicated(n, x)
           e == Recorded(old, dup, f, x, life, s)
           meta == IF s # NoSource /\ old.sources = {} THEN "freed" ELSE "intact"
<1>0. TypeOK /\ RouteInv
  BY DEF SoundTables, Known
<1>1. n \in Name /\ key \in Name /\ old \in PitEntry /\ e \in PitEntry
  BY <1>0, NameAssumption, KeyOfType, FoundType, RecordedType
<1>2. e.fib = old.fib /\ e.incoming = old.incoming \cup {f}
  BY <1>1 DEF Recorded, PitEntry
<1>3. f \in Attached /\ (s # NoSource => f \in HubFace)
  BY DEF OnInterest, CanReceive, Monitored, Attached
<1>4. e.incoming \subseteq Attached
  <2>1. old.incoming = Before(key).incoming
    BY <1>0, <1>1, FoundIsBefore
  <2>2. old.incoming \subseteq Attached
    BY <1>1, <2>1 DEF Before, NewEntry, SoundTables, Known, PitFacesAttached
  <2> QED BY <1>2, <1>3, <2>2
<1>5. e.fib \in Allocated \cup {NoFib}
  BY <1>0, <1>1, <1>2, FoundRoute
<1>6. Sendable(e.incoming) /\ ~ Dangling(e.fib)
  BY <1>4, <1>5, AttachedSendable, RoutesHarmless DEF SoundTables
<1>7. ASSUME NEW F \in Targets(e, fib) PROVE Sendable(F)
  BY <1>5, <1>7, TargetsAttached, AttachedSendable DEF Allocated
<1>8. AdhocFace = {} \/ (stale = {} /\ meta = "intact")
  BY <1>3 DEF Reason, RadioMixed, SoundTables, PlainStore
<1>9. ~ (n = << >> /\ cs = {})
  BY DEF Reason, EmptyLookup
<1> HIDE DEF key, old, dup, e, meta
<1> QED BY <1>6, <1>7, <1>8, <1>9 DEF OnInterest, MayDie, key, old, dup, e, meta

LEMMA OnDataAlive ==
    ASSUME SoundTables, ~ Reason, NEW f \in Face, NEW n \in InterestName, OnData(f, n)
    PROVE  up' = up
<1>1. CASE Unsolicited(f, n) \/ NotAsked(f, n)
  BY <1>1 DEF Unsolicited, NotAsked
<1>2. CASE Answer(f, n)
  <2>1. n \in PitNames
    BY <1>2, NameAssumption DEF Answer, PitNames
  <2>2. pit[n].incoming \subseteq Attached /\ pit[n].fib \in Allocated \cup {NoFib}
    BY <2>1 DEF SoundTables, Known, PitFacesAttached, RouteInv, PointersSound
  <2>3. Sendable(pit[n].incoming) /\ ~ Dangling(pit[n].fib) /\ ~ Poisoned(pit[n].fib)
    BY <2>2, AttachedSendable, RoutesHarmless DEF SoundTables
  <2>4. AdhocFace = {} \/ f \notin HubFace
    BY DEF Reason, RadioMixed
  <2> QED BY <1>2, <2>3, <2>4 DEF Answer, MayDie
<1> QED BY <1>1, <1>2 DEF OnData

LEMMA OnNackAlive ==
    ASSUME SoundTables, ~ Reason, NEW f \in Face, NEW n \in InterestName,
           NEW x \in Nonce, NEW code \in NackCode, NEW life \in Lifetime,
           OnNack(f, n, x, code, life)
    PROVE  up' = up
<1>0. TypeOK
  BY DEF SoundTables, Known
<1>1. CASE StrayNack(f, n, x, life) \/ NackNotAsked(f, n, x)
  BY <1>1 DEF StrayNack, NackNotAsked
<1>2. CASE NackAsked(f, n, x, code)
  <2> DEFINE key == KeyOf(n)
             e == Nacked(pit[key], f, code)
             fb == UpdateStatus(e.fib, f, FALSE)
  <2>1. key \in PitNames /\ pit[key] \in PitEntry
    BY <1>0, <1>2, NameAssumption, KeyOfType
       DEF NackAsked, IsDuplicated, TypeOK, PitNames
  <2>2. e.fib = pit[key].fib
    BY <2>1 DEF Nacked, PitEntry
  <2>3. e.fib \in Allocated \cup {NoFib}
    BY <2>1, <2>2 DEF SoundTables, Known, RouteInv, PointersSound
  <2>4. ~ Dangling(e.fib) /\ ~ Poisoned(e.fib)
    BY <2>3, RoutesHarmless DEF SoundTables
  <2> HIDE DEF e
  <2>5. \A a \in Allocated : /\ fb[a] # Freed
                             /\ fb[a].faces = fib[a].faces
                             /\ fb[a].green \subseteq fib[a].green
    BY <1>0, UpdateStatusEffect DEF Allocated
  <2>6. ASSUME NEW F \in Targets(e, fb) PROVE Sendable(F)
    <3> HIDE DEF fb
    <3> QED BY <2>3, <2>5, <2>6, TargetsAttached, AttachedSendable
  <2>7. AdhocFace = {}
    BY DEF Reason, RadioMixed
  <2> HIDE DEF key, fb
  <2> QED BY <1>2, <2>4, <2>6, <2>7 DEF NackAsked, MayDie, key, e, fb
<1> QED BY <1>1, <1>2 DEF OnNack
LEMMA ManagementAlive ==
    ASSUME SoundTables, ~ Reason, TakeRequest \/ Manage
    PROVE  up' = up
<1>0. TypeOK /\ OnlySelfreg /\ RequestsOpen
  BY DEF SoundTables, Known, RouteInv, FacesInv
<1>1. CASE TakeRequest
  <2>1. ~ Garbled(Head(queue))
    BY <1>1 DEF TakeRequest, Reason, TailFollows
  <2> QED BY <1>1, <2>1 DEF TakeRequest
<1>2. CASE Manage
  <2>1. manager.action = "selfreg" /\ manager.face \in Face /\ NoFace \notin Face
    BY <1>0, <1>2, FaceAssumption DEF Manage, OnlySelfreg, RequestsOpen
  <2>2. \A a \in FibNodeOf(manager.prefix) : ~ Poisoned(a)
    BY RoutesHarmless DEF FibNodeOf, SoundTables
  <2> QED BY <1>2, <2>1, <2>2 DEF Manage, AddToEntry, AddNewEntry
<1> QED BY <1>1, <1>2

(* No face is hung up or deaf, so none is removed. *)
LEMMA HangupAlive ==
    ASSUME ~ Reason, Hangup
    PROVE  FALSE
BY DEF Reason, Broken, Hangup, RemoveFace, ReadError, Face

(***************************************************************************)
(* A step either leaves the daemon as alive as it was, or it is fatal and  *)
(* what it leaves shows the reasons that were there, or it is an           *)
(* application whose connection broke before it was answered.              *)
(***************************************************************************)
LEMMA StepOrDeath ==
    ASSUME TypeOK, Next
    PROVE  up /\ (up' = up \/ UNCHANGED <<face, queue, inbuf, cs>> \/ Broken')
<1>1. CASE Packet
  <2>1. ASSUME NEW f, NEW n, NEW x, NEW life, NEW s, OnInterest(f, n, x, life, s)
        PROVE  up /\ (up' = up \/ UNCHANGED <<face, queue, inbuf, cs>>)
    <3>1. up
      BY <2>1 DEF OnInterest, CanReceive
    <3>2. up' = up \/ Die
      BY <2>1 DEF OnInterest
    <3> QED BY <3>1, <3>2 DEF Die
  <2>2. ASSUME NEW f, NEW n, OnData(f, n)
        PROVE  up /\ (up' = up \/ UNCHANGED <<face, queue, inbuf, cs>>)
    <3>1. up /\ (up' = up \/ Die)
      BY <2>2 DEF OnData, Unsolicited, NotAsked, Answer, CanReceive
    <3> QED BY <3>1 DEF Die
  <2>3. ASSUME NEW f, NEW n, NEW x, NEW code, NEW life, OnNack(f, n, x, code, life)
        PROVE  up /\ (up' = up \/ UNCHANGED <<face, queue, inbuf, cs>>)
    <3>1. up /\ (up' = up \/ Die)
      BY <2>3 DEF OnNack, StrayNack, NackNotAsked, NackAsked, CanReceive
    <3> QED BY <3>1 DEF Die
  <2> QED BY <1>1, <2>1, <2>2, <2>3 DEF Packet
<1>2. ASSUME NEW f \in LocalFace, Connect(f)
      PROVE  up /\ (up' = up \/ Broken')
  BY <1>2 DEF Connect, Broken, TypeOK, Face
<1>3. ASSUME NEW f \in LocalFace, Leave(f) PROVE up /\ up' = up
  BY <1>3 DEF Leave
<1>4. ASSUME NEW f, NEW action, NEW p, SendRequest(f, action, p) PROVE up /\ up' = up
  BY <1>4 DEF SendRequest
<1>5. CASE Hangup
  BY <1>5 DEF Hangup, RemoveFace, ReadError, Die
<1>6. CASE TakeRequest \/ Manage
  BY <1>6 DEF TakeRequest, Manage, AddToEntry, AddNewEntry, RemovePrefix, Die
<1>7. CASE Tick \/ Reap
  BY <1>7 DEF Tick, Reap
<1> QED BY <1>1, <1>2, <1>3, <1>4, <1>5, <1>6, <1>7 DEF Next, Application

(* Only what comes through a hub leaves a stale pointer in the cache. *)
LEMMA PlainStoreStep ==
    ASSUME PlainStore, Next
    PROVE  PlainStore'
<1> SUFFICES ASSUME HubFace = {} PROVE stale' = {}
  BY DEF PlainStore
<1>1. stale = {}
  BY DEF PlainStore
<1>2. ASSUME NEW f, NEW n, NEW x, NEW life, NEW s, OnInterest(f, n, x, life, s)
      PROVE  stale' = {}
  <2>1. stale' = stale \/ \E c : stale' = stale \ {c}
    BY <1>2 DEF OnInterest, Die
  <2> QED BY <1>1, <2>1
<1>3. ASSUME NEW f, NEW n, OnData(f, n) PROVE stale' = {}
  BY <1>1, <1>3 DEF OnData, Unsolicited, NotAsked, Answer, Die, tables
<1>4. ASSUME NEW f, NEW n, NEW x, NEW code, NEW life, OnNack(f, n, x, code, life)
      PROVE  stale' = {}
  BY <1>1, <1>4 DEF OnNack, StrayNack, NackNotAsked, NackAsked, Die, tables
<1>5. CASE Packet
  BY <1>2, <1>3, <1>4, <1>5 DEF Packet
<1>6. CASE Application \/ Hangup \/ TakeRequest \/ Manage \/ Tick \/ Reap
  BY <1>1, <1>6 DEF Application, Connect, Leave, SendRequest, Hangup, RemoveFace, ReadError,
                    TakeRequest, Manage, AddToEntry, AddNewEntry, RemovePrefix, Tick, Reap,
                    Die, tables
<1> QED BY <1>5, <1>6 DEF Next

LEMMA DeathStep ==
    ASSUME SoundTables, DiesForAReason, [Next]_vars
    PROVE  DiesForAReason'
<1>1. CASE UNCHANGED <<up, face, queue, inbuf, cs>>
  BY <1>1 DEF DiesForAReason, Reason, Broken, TailFollows, EmptyLookup, Garbled
<1>2. CASE Next
  <2>1. up /\ (up' = up \/ UNCHANGED <<face, queue, inbuf, cs>> \/ Broken')
    BY <1>2, StepOrDeath DEF SoundTables, Known
  <2>2. CASE Reason
    <3>1. CASE UNCHANGED <<face, queue, inbuf, cs>>
      BY <2>2, <3>1
         DEF DiesForAReason, Reason, Broken, TailFollows, EmptyLookup, Garbled
    <3> QED BY <2>1, <3>1 DEF DiesForAReason, Reason
  <2>3. CASE ~ Reason
    <3>1. CASE Packet
      BY <2>1, <2>3, <3>1, OnInterestAlive, OnDataAlive, OnNackAlive
         DEF Packet, DiesForAReason
    <3>2. CASE TakeRequest \/ Manage
      BY <2>1, <2>3, <3>2, ManagementAlive DEF DiesForAReason
    <3>3. CASE Hangup
      BY <2>3, <3>3, HangupAlive
    <3>4. ASSUME NEW f \in LocalFace, Connect(f) PROVE DiesForAReason'
      <4>1. TypeOK
        BY DEF SoundTables, Known
      <4> QED BY <2>1, <3>4, <4>1 DEF Connect, Broken, TypeOK, Face, DiesForAReason, Reason
    <3>5. ASSUME NEW f \in LocalFace, Leave(f) PROVE DiesForAReason'
      BY <2>1, <3>5 DEF Leave, DiesForAReason
    <3>6. ASSUME NEW f, NEW action, NEW p, SendRequest(f, action, p) PROVE DiesForAReason'
      BY <2>1, <3>6 DEF SendRequest, DiesForAReason
    <3>7. CASE Tick \/ Reap
      BY <2>1, <3>7 DEF Tick, Reap, DiesForAReason
    <3> QED BY <1>2, <3>1, <3>2, <3>3, <3>4, <3>5, <3>6, <3>7 DEF Next, Application
  <2> QED BY <2>2, <2>3
<1> QED BY <1>1, <1>2 DEF vars

(***************************************************************************)
(* With orderly applications the daemon never dies of its tables: when a   *)
(* step is fatal, a connection is broken, a message is read with the tail  *)
(* of an older one, "/" is looked up in an empty cache, or a radio sends   *)
(* what came through a hub or was nacked.  No comparison meets a NULL face *)
(* and no pointer leads to freed memory, for any number of faces, names    *)
(* and packets.                                                            *)
(***************************************************************************)
THEOREM DeathHasAReason ==
    ASSUME Orderly
    PROVE  Spec => []DiesForAReason
<1>1. Spec => []RouteInv
  BY RoutesKept DEF Orderly
<1>2. Spec => []FacesInv
  BY FacesKept DEF Orderly
<1>3. Spec => []Known
  BY <1>1, <1>2, TypeCorrect, PitFacesAlwaysAttached, PTL DEF Known
<1>4. Init => GreenInRoute /\ PlainStore /\ DiesForAReason
  BY NullAssumption DEF Init, GreenInRoute, Allocated, PlainStore, DiesForAReason
<1>5. Known /\ GreenInRoute /\ [Next]_vars => GreenInRoute'
  BY GreenStep DEF Known
<1>6. PlainStore /\ [Next]_vars => PlainStore'
  BY PlainStoreStep DEF vars, PlainStore
<1>7. Known /\ GreenInRoute /\ PlainStore /\ DiesForAReason /\ [Next]_vars
      => DiesForAReason'
  BY DeathStep DEF SoundTables
<1> QED BY <1>3, <1>4, <1>5, <1>6, <1>7, PTL DEF Spec

-----------------------------------------------------------------------------
(***************************************************************************)
(* The forwarding core implements the exchange of Interests and contents,  *)
(* step by step, for every value of its constants.  What a face waits for  *)
(* is what the PIT has it down for; the FIB, the cache and the nonces are  *)
(* gone from the picture.                                                  *)
(***************************************************************************)

(* The steps of the exchange, read off the PIT. *)

(* Face g waits under the name m. *)
Waits(g, m) == m \in PitNames /\ g \in pit[m].incoming

(* Sets of pairs that agree on every pair are equal. *)
LEMMA PairsEqual ==
    ASSUME NEW S \in SUBSET (Face \X Name), NEW T \in SUBSET (Face \X Name),
           \A g \in Face, m \in Name : <<g, m>> \in S <=> <<g, m>> \in T
    PROVE  S = T
OBVIOUS

(* What the exchange calls "pending". *)
Pending == {p \in Face \X Name : p[2] \in PitNames /\ p[1] \in pit[p[2]].incoming}

LEMMA PendingIsWaiting ==
    /\ Pending \in SUBSET (Face \X Name) /\ Pending' \in SUBSET (Face \X Name)
    /\ \A g \in Face, m \in Name :
          /\ <<g, m>> \in Pending <=> Waits(g, m)
          /\ <<g, m>> \in Pending' <=> Waits(g, m)'
BY DEF Pending, Waits

LEMMA IsAsk ==
    ASSUME NEW f \in Face, NEW n \in Name,
           \A g \in Face, m \in Name : Waits(g, m)' <=> Waits(g, m) \/ (g = f /\ m = n),
           \A g \in Face : credit'[g] = IF g = f THEN credit[g] + 1 ELSE credit[g]
    PROVE  Exchange!Ask(f, n)
<1>1. Pending \cup {<<f, n>>} \in SUBSET (Face \X Name)
  BY PendingIsWaiting
<1>2. Pending' = Pending \cup {<<f, n>>}
  BY <1>1, PendingIsWaiting, PairsEqual
<1> QED BY <1>2 DEF Exchange!Ask, Exchange!Plus, Pending

(* Everyone who waited under n is gone. *)
LEMMA PendingAnswered ==
    ASSUME NEW n \in Name,
           \A g \in Face, m \in Name : Waits(g, m)' <=> Waits(g, m) /\ m # n
    PROVE  /\ Pending' = Pending \ (Face \X {n})
           /\ \A g \in Face : g \in Exchange!Waiting(n) <=> Waits(g, n)
<1>1. Pending \ (Face \X {n}) \in SUBSET (Face \X Name)
  BY PendingIsWaiting
<1>2. Pending' = Pending \ (Face \X {n})
  BY <1>1, PendingIsWaiting, PairsEqual
<1>3. \A g \in Face : g \in Exchange!Waiting(n) <=> Waits(g, n)
  BY PendingIsWaiting DEF Exchange!Waiting, Pending
<1> QED BY <1>2, <1>3

LEMMA IsAskAndAnswer ==
    ASSUME NEW f \in Face, NEW n \in Name,
           \A g \in Face, m \in Name : Waits(g, m)' <=> Waits(g, m) /\ m # n,
           \A g \in Face : credit[g] \in Int /\
              credit'[g] = IF g # f /\ Waits(g, n) THEN credit[g] - 1 ELSE credit[g]
    PROVE  Exchange!AskAndAnswer(f, n)
<1>1. [g \in Face |-> credit'[g]] =
      [g \in Face |-> IF g \in Exchange!Waiting(n) \ {f} THEN credit[g] + (-1) ELSE credit[g]]
  BY PendingAnswered
<1> QED BY <1>1, PendingAnswered DEF Exchange!AskAndAnswer, Exchange!Plus, Pending

LEMMA IsAnswer ==
    ASSUME NEW n \in Name,
           \A g \in Face, m \in Name : Waits(g, m)' <=> Waits(g, m) /\ m # n,
           \A g \in Face : credit[g] \in Int /\
              credit'[g] = IF Waits(g, n) THEN credit[g] - 1 ELSE credit[g]
    PROVE  Exchange!Answer(n)
<1>1. [g \in Face |-> credit'[g]] =
      [g \in Face |-> IF g \in Exchange!Waiting(n) THEN credit[g] + (-1) ELSE credit[g]]
  BY PendingAnswered
<1> QED BY <1>1, PendingAnswered DEF Exchange!Answer, Exchange!Plus, Pending

(* Nobody waits who did not, and nobody is charged: the exchange forgets. *)
LEMMA IsForget ==
    ASSUME QuietStep
    PROVE  Exchange!Forget
<1>1. \A g \in Face, m \in Name : Waits(g, m)' => Waits(g, m)
  BY DEF QuietStep, Waits, NoNewWaiter, Before, NewEntry
<1>2. Pending' \subseteq Pending
  BY <1>1 DEF Pending, Waits
<1> QED BY <1>2 DEF Exchange!Forget, Pending, QuietStep

-----------------------------------------------------------------------------
(* The handlers. *)

(***************************************************************************)
(* An Interest is recorded, even one that repeats a nonce, and kept when   *)
(* it is sent on, for there is always somebody to send it to; or a content *)
(* answers it and all that wait under the name it was found under.         *)
(***************************************************************************)
LEMMA OnInterestExchange ==
    ASSUME TypeOK, RouteInv, NEW f \in Face, NEW n \in InterestName, NEW x \in Nonce,
           NEW life \in Lifetime, NEW s \in Source \cup {NoSource},
           OnInterest(f, n, x, life, s)
    PROVE  \/ \E k \in Name : Exchange!Ask(f, k) \/ Exchange!AskAndAnswer(f, k)
           \/ QuietStep
<1> PICK key \in Name : key = KeyOf(n)
  BY NameAssumption, KeyOfType
<1> DEFINE old == Found(n, life)
           dup == IsDuplicated(n, x)
           e == Recorded(old, dup, f, x, life, s)
           meta == IF s # NoSource /\ old.sources = {} THEN "freed" ELSE "intact"
           asked == Charged(credit, {f} \cup ({s} \ {NoSource}))
           Goal == \/ \E k \in Name : Exchange!Ask(f, k) \/ Exchange!AskAndAnswer(f, k)
                   \/ QuietStep
<1>1. n \in Name /\ old \in PitEntry /\ e \in PitEntry
  BY NameAssumption, FoundType, RecordedType
<1>2. e.incoming = old.incoming \cup {f} /\ e.fib = old.fib
  BY <1>1 DEF Recorded, PitEntry
<1>3. \A g \in Face : g \in e.incoming <=> g = f \/ Waits(g, key)
  BY <1>1, <1>2, FoundIsBefore DEF Waits, Before, NewEntry
<1>4. \A g \in Face : /\ credit[g] \in Int
                      /\ asked[g] = IF g = f THEN credit[g] + 1 ELSE credit[g]
  BY FaceAssumption DEF TypeOK, Charged, Requester
<1>5. ASSUME NEW v \in PitEntry, v.incoming = e.incoming,
             pit' = [pit EXCEPT ![key] = v], credit' = asked
      PROVE  Goal
  <2>1. \A m \in Name : pit'[m] = IF m = key THEN v ELSE pit[m]
    BY <1>1, <1>5 DEF TypeOK
  <2>2. v # NoEntry
    BY NullAssumption
  <2>3. \A g \in Face, m \in Name : Waits(g, m)' <=> Waits(g, m) \/ (g = f /\ m = key)
    BY <1>1, <1>3, <1>5, <2>1, <2>2 DEF Waits, PitNames
  <2>4. \A g \in Face : credit'[g] = IF g = f THEN credit[g] + 1 ELSE credit[g]
    BY <1>4, <1>5
  <2> QED BY <1>1, <2>3, <2>4, IsAsk
<1>6. ASSUME pit' = [pit EXCEPT ![key] = NoEntry], credit' = Repaid(asked, Served(e))
      PROVE  Goal
  <2>1. \A g \in Face, m \in Name : Waits(g, m)' <=> Waits(g, m) /\ m # key
    BY <1>1, <1>6 DEF Waits, PitNames, TypeOK
  <2>2. e.sources \cap Face = {}
    BY <1>1, FaceAssumption DEF PitEntry
  <2>3. \A g \in Face : g \in Served(e) <=> g = f \/ Waits(g, key)
    BY <1>3, <2>2 DEF Served
  <2>4. \A g \in Face : credit'[g] = IF g # f /\ Waits(g, key) THEN credit[g] - 1 ELSE credit[g]
    <3>1. \A g \in Face : credit'[g] = IF g \in Served(e) THEN asked[g] - 1 ELSE asked[g]
      BY <1>6 DEF Repaid, Requester
    <3> HIDE DEF e, asked
    <3> QED BY <1>4, <2>3, <3>1
  <2> QED BY <1>1, <1>4, <2>1, <2>4, IsAskAndAnswer
<1>7. ASSUME pit' = [pit EXCEPT ![key] = e], credit' = asked PROVE Goal
  BY <1>1, <1>5, <1>7
<1>8. ASSUME NEW F \in Targets(e, fib), Sendable(F),
             pit' = [pit EXCEPT ![key] = Propagated(e, F)], credit' = asked
      PROVE  Goal
  <2>1. f \in Monitored
    BY DEF OnInterest, CanReceive
  <2>2. F # {} /\ F \in SUBSET Face
    <3>1. fib \in [FibNode -> FibEntry \cup {Freed}]
      BY DEF TypeOK
    <3> HIDE DEF e
    <3> QED BY <1>1, <1>2, <1>8, <2>1, <3>1, SomebodyToAsk, TargetsType
  <2> HIDE DEF e
  <2>3. Propagated(e, F) \in PitEntry
    BY <1>1, <2>2, PropagatedType
  <2>4. Propagated(e, F).incoming = e.incoming
    BY <1>1, <2>2 DEF Propagated, AddOutgoing, PitEntry
  <2> HIDE DEF Goal, asked
  <2> QED BY <1>5, <1>8, <2>3, <2>4
<1>9. ASSUME Die PROVE Goal
  BY <1>9, SamePitQuiet DEF Die
<1> HIDE DEF old, dup, e, meta, asked, Goal
<1>10. Goal
  BY <1>6, <1>7, <1>8, <1>9
     DEF OnInterest, Survives, old, dup, e, meta, asked
<1> QED BY <1>10 DEF Goal

(* A content that was asked for goes to everyone waiting under its name. *)
LEMMA OnDataExchange ==
    ASSUME TypeOK, NEW f \in Face, NEW n \in InterestName, OnData(f, n)
    PROVE  n \in Name /\ (Exchange!Answer(n) \/ QuietStep)
<1>1. n \in Name
  BY NameAssumption
<1>2. CASE Answer(f, n) /\ ~ Die
  <2>1. /\ pit' = [pit EXCEPT ![n] = NoEntry] /\ credit' = Repaid(credit, Served(pit[n]))
        /\ pit[n] # NoEntry
    BY <1>2 DEF Answer
  <2>2. pit[n] \in PitEntry
    BY <1>1, <2>1 DEF TypeOK
  <2>3. \A g \in Face, m \in Name : Waits(g, m)' <=> Waits(g, m) /\ m # n
    BY <1>1, <2>1 DEF Waits, PitNames, TypeOK
  <2>4. pit[n].sources \cap Face = {}
    BY <2>2, FaceAssumption DEF PitEntry
  <2>5. \A g \in Face : g \in Served(pit[n]) <=> Waits(g, n)
    BY <1>1, <2>1, <2>4 DEF Served, Waits, PitNames
  <2>6. \A g \in Face : credit[g] \in Int /\
           credit'[g] = IF Waits(g, n) THEN credit[g] - 1 ELSE credit[g]
    BY <2>1, <2>5 DEF Repaid, Requester, TypeOK
  <2> QED BY <1>1, <2>3, <2>6, IsAnswer
<1>3. CASE Unsolicited(f, n) \/ NotAsked(f, n) \/ Die
  BY <1>1, <1>3, SamePitQuiet DEF Unsolicited, NotAsked, Die, tables
<1> QED BY <1>2, <1>3 DEF OnData

LEMMA ExchangeStep ==
    ASSUME TypeOK, RouteInv, [Next]_vars
    PROVE  [Exchange!Next]_(Exchange!vars)
<1>1. CASE UNCHANGED vars
  BY <1>1 DEF vars, Exchange!vars, PitNames
<1>2. ASSUME QuietStep PROVE Exchange!Next
  BY <1>2, IsForget DEF Exchange!Next
<1>3. CASE Packet
  <2>1. ASSUME NEW f \in Face, NEW n \in InterestName, NEW x \in Nonce,
               NEW life \in Lifetime, NEW s \in Source \cup {NoSource},
               OnInterest(f, n, x, life, s)
        PROVE  Exchange!Next
    BY <1>2, <2>1, OnInterestExchange DEF Exchange!Next
  <2>2. ASSUME NEW f \in Face, NEW n \in InterestName, OnData(f, n)
        PROVE  Exchange!Next
    BY <1>2, <2>2, OnDataExchange DEF Exchange!Next
  <2>3. ASSUME NEW f \in Face, NEW n \in InterestName, NEW x \in Nonce,
               NEW code \in NackCode, NEW life \in Lifetime, OnNack(f, n, x, code, life)
        PROVE  Exchange!Next
    BY <1>2, <2>3, OnNackQuiet
  <2> QED BY <1>3, <2>1, <2>2, <2>3 DEF Packet
<1>4. CASE Application \/ Hangup \/ TakeRequest \/ Manage \/ Tick \/ Reap
  BY <1>2, <1>4, OthersQuiet
<1> QED BY <1>1, <1>3, <1>4 DEF Next

(***************************************************************************)
(* As long as nobody unregisters, every step of the daemon is one of the   *)
(* exchange: it takes an Interest in or answers it at once, answers        *)
(* exactly those who wait under one name, or forgets; whatever faces come  *)
(* and go, packets are nacked, and tables are full.  That an Interest is   *)
(* never dropped on arrival rests on routes that exist and have a face.    *)
(***************************************************************************)
THEOREM CoreIsExchange ==
    ASSUME ~ AppsUnregister
    PROVE  Spec => ImplementsExchange
<1>1. Init => Exchange!Init
  BY DEF Init, Exchange!Init, PitNames, Requester
<1>2. TypeOK /\ RouteInv /\ [Next]_vars => [Exchange!Next]_(Exchange!vars)
  BY ExchangeStep
<1> QED BY <1>1, <1>2, TypeCorrect, RoutesKept, PTL DEF Spec, ImplementsExchange, Exchange!Spec
=============================================================================
