---------------------------- MODULE MCLLNomPolicy ----------------------------
(* A node on a road of three points, and a name with a prefix. *)
EXTENDS LLNomPolicy

Letters == {"a", "b"}
A == <<"a">>
AB == <<"a", "b">>

TwoNames == {A, AB}
=============================================================================
