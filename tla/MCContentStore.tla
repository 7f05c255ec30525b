---------------------------- MODULE MCContentStore ----------------------------
(* Names of at most two components made of two letters, and bounded runs.  *)
EXTENDS ContentStore

CONSTANTS a, b

Letters == {a, b}

Names == {<< >>} \cup {<<x>> : x \in Letters}
                 \cup {<<x, y>> : x \in Letters, y \in Letters}

(* The names contents have: "/a", "/b" and what is below "/a". *)
Contents == {<<a>>, <<b>>, <<a, a>>, <<a, b>>}

NoRoot == Names \ {<< >>}
=============================================================================
