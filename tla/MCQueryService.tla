--------------------------- MODULE MCQueryService ---------------------------
(* Every buffer of up to MaxSize blocks over a root, a trunk, a branch and a*)
(* block above a height gap.                                               *)
EXTENDS QueryService

B(n, h, pn, ph) == [number |-> n, hash |-> h, parent_number |-> pn, parent_hash |-> ph]

MCHash == {"r", "a1", "a2", "a3", "b2", "g4", "z"}

Tree == { B(0, "r", 0, "r"), B(1, "a1", 0, "r"), B(2, "a2", 1, "a1"), B(3, "a3", 2, "a2"),
          B(2, "b2", 1, "a1"), B(4, "g4", 2, "b2") }

Lists == {t \in UNION {[1 .. n -> Tree] : n \in 1 .. MaxSize} : Linked(t)}

MCBuffers == UNION {{[blocks |-> s, finalized_head |-> f] : f \in DOMAIN s} : s \in Lists}

MCFroms == 0 .. 5

MCBaseHashes == {NoHash, "r", "a1", "b2", "z"}
=============================================================================
