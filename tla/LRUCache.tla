------------------------------ MODULE LRUCache ------------------------------
(***************************************************************************)
(* The content store of ndnd seen from outside, without trie and pointers: *)
(* a cache of at most MaxSize contents (0: no limit) that forgets the one  *)
(* not used for longest.  This is what the code does, and at two points    *)
(* not what its comments say: a name that is there keeps the content it    *)
(* has (Keep; see ContentStore!AddIsCached), and a lookup may be answered  *)
(* with the content of a shorter name (CacheMatch; AnswersWithinName).     *)
(***************************************************************************)
EXTENDS NDNNames, Subsequences

CONSTANTS Name, LookupName, Packet, NoPacket, MaxSize

VARIABLES
    entries,  \* [name, packet] records, the one to evict first
    call      \* the last call and what came of it

vars == <<entries, call>>

NoCall == [op |-> "none", name |-> << >>, used |-> << >>, packet |-> NoPacket]

Cached == {entries[i].name : i \in DOMAIN entries}

Others(c) == Kept(entries, {i \in 1..Len(entries) : entries[i].name # c})

EntryOf(c) == entries[CHOOSE i \in DOMAIN entries : entries[i].name = c]

Init == entries = << >> /\ call = NoCall

Hit(n) == \E c \in CacheMatch(Cached, n) :
    /\ entries' = Append(Others(c), EntryOf(c))
    /\ call' = [op |-> "hit", name |-> n, used |-> c, packet |-> EntryOf(c).packet]

Miss(n) ==
    /\ CacheMatch(Cached, n) = {}
    /\ call' = [NoCall EXCEPT !.op = "miss", !.name = n]
    /\ UNCHANGED entries

Keep(n, x) ==
    /\ n \in Cached
    /\ call' = [op |-> "keep", name |-> n, used |-> n, packet |-> x]
    /\ UNCHANGED entries

Add(n, x) ==
    /\ n \notin Cached
    /\ call' = [op |-> "add", name |-> n, used |-> n, packet |-> x]
    /\ LET room == IF MaxSize = 0 \/ Len(entries) < MaxSize THEN entries
                   ELSE Tail(entries)
       IN  entries' = Append(room, [name |-> n, packet |-> x])

Next ==
    \/ \E n \in LookupName : Hit(n) \/ Miss(n)
    \/ \E n \in Name, x \in Packet : Keep(n, x) \/ Add(n, x)

Spec == Init /\ [][Next]_vars
=============================================================================
