------------------------------ MODULE NDNNames ------------------------------
(***************************************************************************)
(* Name matching shared by the tables of the daemon.  A name is the        *)
(* sequence of its components (NameComponents); the empty sequence is "/". *)
(***************************************************************************)
EXTENDS Naturals, Sequences

PrefixOf(p, n) == Len(p) <= Len(n) /\ SubSeq(n, 1, Len(p)) = p

(* The names of S that are prefixes of n. *)
Prefixing(S, n) == {p \in S : PrefixOf(p, n)}

(***************************************************************************)
(* LongestPrefixMatch of the PIT and of the FIB tries the prefixes of n    *)
(* from n itself down to "/" and returns the first one the table holds.    *)
(***************************************************************************)
HasPrefixIn(S, n) == Prefixing(S, n) # {}

LongestPrefixMatch(S, n) ==
    CHOOSE p \in Prefixing(S, n) :
        \A q \in Prefixing(S, n) : Len(q) <= Len(p)

(***************************************************************************)
(* What deepest_prefix_match may return for n when the content store holds *)
(* the names C.  The walk down the trie has to reach the node of n, so     *)
(* some cached name must extend n; then the deepest cached name ON THE WAY *)
(* wins, even a proper prefix of n, and only when there is none is some    *)
(* cached name below n returned (the order of the children is not          *)
(* defined).                                                               *)
(***************************************************************************)
CacheMatch(C, n) ==
    LET below == {c \in C : PrefixOf(n, c)}
    IN  IF below = {} THEN {}
        ELSE IF HasPrefixIn(C, n) THEN {LongestPrefixMatch(C, n)}
        ELSE below
=============================================================================
