---------------------------- MODULE ContentStore ----------------------------
(***************************************************************************)
(* The content store of ndnd (ContentStoreImpl over lru_policy_traits): a  *)
(* trie of name components whose nodes may carry a packet, and the list    *)
(* that threads the nodes with a packet in the order they were last used.  *)
(* The trie and the list share the nodes: a node that is freed while the   *)
(* list links it, or linked without a packet, corrupts both.               *)
(*                                                                         *)
(* A node is the name that leads to it.  Name is everything a node can be  *)
(* called; what a lookup returns among several contents below a node is    *)
(* not determined (the order of an unordered_set).                         *)
(***************************************************************************)
EXTENDS NDNNames, Subsequences, FiniteSets

CONSTANTS
    Component,    \* what names are made of
    Name,         \* all names, with their prefixes
    ContentName,  \* names of contents
    LookupName,   \* names of Interests
    Packet,       \* contents: different packets may carry the same name
    NoPacket,     \* PayloadTraits::empty_payload
    MaxSize       \* max_size_ of the policy; 0 means no limit

ASSUME NameAssumption ==
    /\ Name \subseteq Seq(Component) /\ IsFiniteSet(Name) /\ << >> \in Name
    /\ \A n \in Name : \A k \in 0..Len(n) : SubSeq(n, 1, k) \in Name
    /\ ContentName \subseteq Name /\ LookupName \subseteq Name
ASSUME PacketAssumption == NoPacket \notin Packet
ASSUME SizeAssumption == MaxSize \in Nat

VARIABLES
    up,       \* no NULL node has been followed
    nodes,    \* the nodes of the trie
    payload,  \* the packet of each node
    lru,      \* the policy's list, front first
    call      \* history: the last call and what came of it

vars == <<up, nodes, payload, lru, call>>

Root == << >>

Loaded(P) == {n \in Name : P[n] # NoPacket}

NoCall == [op |-> "none", name |-> << >>, used |-> << >>, packet |-> NoPacket]

Init ==
    /\ up = TRUE
    /\ nodes = {Root}
    /\ payload = [n \in Name |-> NoPacket]
    /\ lru = << >>
    /\ call = NoCall

-----------------------------------------------------------------------------
(* The trie. *)

(* The nodes a walk from the root towards n visits. *)
Walk(n) == {p \in Prefixing(nodes, n) : Prefixing(Name, p) \subseteq nodes}

ReachLast(n) == n \in Walk(n)

(* find (key): the deepest packets on the way, at most one. *)
FoundNode(n) ==
    LET found == Walk(n) \cap Loaded(payload)
    IN  {p \in found : \A q \in found : Len(q) <= Len(p)}

(* find (): any packet at or below a node. *)
Below(n) == {p \in nodes \cap Loaded(payload) : PrefixOf(n, p)}

Child(N, p) == {q \in N : PrefixOf(p, q) /\ Len(q) = Len(p) + 1}

(* Mutant: only the node itself is removed, not its parents. *)
PrunedLeaf(N, P, n) ==
    IF n # Root /\ P[n] = NoPacket /\ Child(N, n) = {} THEN N \ {n} ELSE N

(***************************************************************************)
(* prune (): from the node n towards the root, nodes without a packet and  *)
(* without children go, until one stays.                                   *)
(***************************************************************************)
Pruned(N, P, n) ==
    LET path == Prefixing(N, n)
        bare(q) == q # Root /\ P[q] = NoPacket /\ Child(N, q) \subseteq path
    IN  N \ {p \in path : \A q \in path : Len(p) <= Len(q) => bare(q)}

-----------------------------------------------------------------------------
(* The policy: lookup moves a node to the end of the list. *)

(* Mutant: the node is not taken out of its place. *)
StillLinked(n) == lru

Unlinked(n) == Kept(lru, {i \in 1..Len(lru) : lru[i] # n})

(* Mutant: a lookup does not count as a use. *)
NotMoved(n) == lru

MovedToEnd(n) == Append(Unlinked(n), n)

-----------------------------------------------------------------------------
(***************************************************************************)
(* ContentStoreImpl::Lookup, by deepest_prefix_match.  Only the root can   *)
(* be reached with no packet at or below it; the policy is then handed the *)
(* NULL node.                                                              *)
(***************************************************************************)
LookupHit(n) ==
    /\ up /\ ReachLast(n)
    /\ \E c \in IF FoundNode(n) # {} THEN FoundNode(n) ELSE Below(n) :
          /\ lru' = MovedToEnd(c)
          /\ call' = [op |-> "hit", name |-> n, used |-> c, packet |-> payload[c]]
    /\ UNCHANGED <<up, nodes, payload>>

LookupMiss(n) ==
    /\ up /\ ~ReachLast(n)
    /\ call' = [NoCall EXCEPT !.op = "miss", !.name = n]
    /\ UNCHANGED <<up, nodes, payload, lru>>

LookupNull(n) ==
    /\ up /\ ReachLast(n) /\ FoundNode(n) = {} /\ Below(n) = {}
    /\ up' = FALSE
    /\ UNCHANGED <<nodes, payload, lru, call>>

(***************************************************************************)
(* ContentStoreImpl::Add.  The nodes on the way are made first.  A node    *)
(* that has a packet keeps it.  Otherwise the policy makes room, erasing   *)
(* the node at the front of its list, before it links the new one.         *)
(***************************************************************************)
AddKnown(n, x) ==
    /\ up /\ payload[n] # NoPacket
    /\ nodes' = nodes \cup Prefixing(Name, n)
    /\ call' = [op |-> "keep", name |-> n, used |-> n, packet |-> x]
    /\ UNCHANGED <<up, payload, lru>>

(* Mutant: the limit is off by one. *)
EvictsLate == MaxSize # 0 /\ Len(lru) > MaxSize

Evicts == MaxSize # 0 /\ Len(lru) >= MaxSize

AddNew(n, x) ==
    LET grown == nodes \cup Prefixing(Name, n)
        filled == [payload EXCEPT ![n] = x]
        victim == Head(lru)
        emptied == [filled EXCEPT ![victim] = NoPacket]
    IN
    /\ up /\ payload[n] = NoPacket
    /\ \/ /\ ~Evicts
          /\ nodes' = grown /\ payload' = filled
          /\ lru' = Append(lru, n)
       \/ /\ Evicts
          /\ payload' = emptied
          /\ nodes' = Pruned(grown, emptied, victim)
          /\ lru' = Append(Tail(lru), n)
    /\ call' = [op |-> "add", name |-> n, used |-> n, packet |-> x]
    /\ UNCHANGED up

Lookup == \E n \in LookupName : LookupHit(n) \/ LookupMiss(n) \/ LookupNull(n)

Add == \E n \in ContentName, x \in Packet : AddKnown(n, x) \/ AddNew(n, x)

Next == Lookup \/ Add

Spec == Init /\ [][Next]_vars

-----------------------------------------------------------------------------
TypeOK ==
    /\ up \in BOOLEAN
    /\ nodes \subseteq Name
    /\ payload \in [Name -> Packet \cup {NoPacket}]
    /\ lru \in Seq(Name) /\ (MaxSize # 0 => Len(lru) <= MaxSize)
    /\ call \in [op : {"none", "hit", "miss", "keep", "add"},
                 name : Name, used : Name, packet : Packet \cup {NoPacket}]

(***************************************************************************)
(* The list links every node that has a packet, once, and nothing else:    *)
(* eviction and lookup never touch a node that is unlinked or freed        *)
(* (trie_with_policy::insert and erase).                                   *)
(***************************************************************************)
TrieMatchesList ==
    /\ Loaded(payload) \subseteq nodes
    /\ Loaded(payload) = {lru[i] : i \in DOMAIN lru}
    /\ \A i, j \in DOMAIN lru : lru[i] = lru[j] => i = j

(***************************************************************************)
(* The trie is connected, and keeps no branch that leads to no packet, so  *)
(* its memory is bounded by what it caches (trie::prune).                  *)
(***************************************************************************)
NoDeadBranches ==
    /\ Root \in nodes
    /\ \A p \in nodes \ {Root} : Prefixing(Name, p) \subseteq nodes /\ Below(p) # {}

(***************************************************************************)
(* The trie and its list together are a least-recently-used cache: what a  *)
(* lookup answers, what it counts as a use of, and what an insertion       *)
(* evicts are decided by the contents and their last uses alone.           *)
(***************************************************************************)
Cache == INSTANCE LRUCache WITH
    Name <- ContentName,
    entries <- [i \in DOMAIN lru |-> [name |-> lru[i], packet |-> payload[lru[i]]]]

ImplementsCache == Cache!Spec

-----------------------------------------------------------------------------
(* What comments of the repository say of this code. *)

(***************************************************************************)
(* "Add or update entry in the content store" (NDNL3Protocol::OnData), and *)
(* ContentStore::Add tells whether "an existing entry was updated": after  *)
(* an addition the content added is the one cached under its name.         *)
(***************************************************************************)
AddIsCached == call.op \in {"keep", "add"} => payload[call.name] = call.packet

(***************************************************************************)
(* deepest_prefix_match finds "a node that has prefix at least as the key":*)
(* the content that answers a lookup has a name at or below the one asked. *)
(***************************************************************************)
AnswersWithinName == call.op = "hit" => PrefixOf(call.name, call.used)
=============================================================================
