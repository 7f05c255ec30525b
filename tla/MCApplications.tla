--------------------------- MODULE MCApplications ---------------------------
(* Two cars, one photo or two speeds, for TLC. *)
EXTENDS Applications

MCMaxAnswers == [photo |-> 1, traffic |-> 2]
=============================================================================
