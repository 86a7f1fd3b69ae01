--------------------------- MODULE MCChainBuffer ---------------------------
(* A block tree with everything push tells apart: a root, branches that split*)
(* above heights 1 and 2, a block over a height gap, a block that claims     *)
(* another's ref, and one that is not above its parent.                     *)
EXTENDS ChainBuffer

B(n, h, pn, ph) == [number |-> n, hash |-> h, parent_number |-> pn, parent_hash |-> ph]
R(n, h) == [number |-> n, hash |-> h]

MCHash == {"r", "a1", "a2", "a3", "a4", "b2", "b3", "c3", "g4", "z"}

Root == B(0, "r", 0, "r")
A1 == B(1, "a1", 0, "r")
A2 == B(2, "a2", 1, "a1")
A3 == B(3, "a3", 2, "a2")
B2 == B(2, "b2", 1, "a1")
B3 == B(3, "b3", 2, "b2")
A4 == B(4, "a4", 3, "a3")
C3 == B(3, "c3", 2, "a2")
Gap4 == B(4, "g4", 2, "a2")
Equivocation == B(2, "a2", 1, "z")
Descending == B(1, "z", 2, "a2")

MCDeliverable == {A1, A2, A3, A4, B2, B3, C3, Gap4, Equivocation, Descending}
MCReports == {R(1, "a1"), R(2, "a2"), R(2, "b2"), R(3, "a3"), R(3, "z"), R(5, "z")}
MCSeeds == {Root, A1, B2}
=============================================================================
