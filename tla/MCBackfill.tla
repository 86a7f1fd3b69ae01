----------------------------- MODULE MCBackfill -----------------------------
(* Tails that start at height 3 or, after a re-seed raced the request, at a*)
(* root; a source that may yield either branch, in or out of order.        *)
EXTENDS Backfill

B(n, h, pn, ph) == [number |-> n, hash |-> h, parent_number |-> pn, parent_hash |-> ph]

MCHash == {"r", "a1", "a2", "a3", "a4", "b2", "z"}

Root == B(0, "r", 0, "r")
A1 == B(1, "a1", 0, "r")
A2 == B(2, "a2", 1, "a1")
A3 == B(3, "a3", 2, "a2")
A4 == B(4, "a4", 3, "a3")
B2 == B(2, "b2", 1, "a1")

MCTails == {<<A3, A4>>, <<Root>>}

MCSourceBatches == {<< >>, <<A1>>, <<A2>>, <<A1, A2>>, <<A1, B2>>, <<A2, A1>>, <<B2>>}

MCBaseHashes == {NoHash, "r", "z"}
=============================================================================
