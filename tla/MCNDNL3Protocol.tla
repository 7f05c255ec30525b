--------------------------- MODULE MCNDNL3Protocol ---------------------------
(* Small instances of the forwarding core for TLC. *)
EXTENDS NDNL3Protocol

A == <<"a">>
AB == <<"a", "b">>

Letters == {"a", "b", "bb"}
BB == <<"bb">>

OneName == {A}
TwoNames == {A, AB}
RootAndA == {<< >>, A}
ShortAndLong == {A, BB}
RootShortAndLong == {<< >>, A, BB}

(* "\/a" has three characters, "\/bb" four, "\/a\/b" six. *)
PrefixLength == [p \in RegName |-> IF p = BB THEN 4 ELSE 3 * Len(p)]

(* The first connection has a number of one digit, later ones of three. *)
FirstIsShort == [f \in LocalFace |->
    IF f = CHOOSE g \in LocalFace : TRUE THEN 1 ELSE 3]

(* The exchange of Interests and contents the core implements. *)
Exchange == INSTANCE InterestExchange WITH
    pending <- {p \in Face \X Name : p[2] \in PitNames /\ p[1] \in pit[p[2]].incoming},
    credit <- [f \in Face |-> credit[f]]

(* Every step of the core is a step of the exchange, or changes nothing there. *)
ImplementsExchange == Exchange!Spec
=============================================================================
