-------------------------- MODULE InterestExchange --------------------------
(***************************************************************************)
(* What the forwarding core promises its faces, tables left out, as long   *)
(* as no prefix is unregistered: every Interest is answered at once or     *)
(* waits, even one that repeats another; a content goes exactly to the     *)
(* faces with a pending Interest under one name, and pays back one         *)
(* Interest of each of them.                                               *)
(***************************************************************************)
EXTENDS Integers, FiniteSets

CONSTANTS Face, Name

VARIABLES
    pending,  \* pairs <<f, n>>: face f waits under the name n
    credit    \* Interests received from a face minus contents sent to it

vars == <<pending, credit>>

Init == pending = {} /\ credit = [f \in Face |-> 0]

Waiting(n) == {f \in Face : <<f, n>> \in pending}

Plus(F, k) == [f \in Face |-> IF f \in F THEN credit[f] + k ELSE credit[f]]

(* Face f expresses an Interest; it is never refused, it waits under n. *)
Ask(f, n) ==
    /\ pending' = pending \cup {<<f, n>>}
    /\ credit' = Plus({f}, 1)

(* Content for n goes to everyone waiting under n, and to nobody else. *)
Answer(n) ==
    /\ pending' = pending \ (Face \X {n})
    /\ credit' = Plus(Waiting(n), -1)

(* An Interest finds the content at once: the others waiting get it too. *)
AskAndAnswer(f, n) ==
    /\ pending' = pending \ (Face \X {n})
    /\ credit' = Plus(Waiting(n) \ {f}, -1)

(* Interests expire, or their face goes away; nobody is sent anything. *)
Forget == pending' \subseteq pending /\ UNCHANGED credit

Next ==
    \/ \E f \in Face, n \in Name : Ask(f, n) \/ AskAndAnswer(f, n)
    \/ \E n \in Name : Answer(n)
    \/ Forget

Spec == Init /\ [][Next]_vars
=============================================================================
