---------------------------- MODULE MCIngestion ----------------------------
(* A root with a trunk a1..a4, a branch at height 2 and one over a gap.    *)
EXTENDS Lifecycle

B(n, h, pn, ph) == [number |-> n, hash |-> h, parent_number |-> pn, parent_hash |-> ph]
R(n, h) == [number |-> n, hash |-> h]
Batch(blocks, report) == [blocks |-> blocks, finalized_head |-> report]

MCHash == {"r", "a1", "a2", "a3", "b2", "b3", "g3", "z", "bad"}
MCBadHash == {"bad"}

Root == B(0, "r", 0, "r")
A1 == B(1, "a1", 0, "r")
A2 == B(2, "a2", 1, "a1")
A3 == B(3, "a3", 2, "a2")
B2 == B(2, "b2", 1, "a1")
B3 == B(3, "b3", 2, "b2")
Gap3 == B(3, "g3", 1, "a1")
Equivocation == B(2, "a2", 1, "z")

MCSeeds == {Root, A1}

MCBatches ==
  { Batch(<<A1>>, NoRef), Batch(<<A2>>, NoRef), Batch(<<A2, A3>>, R(1, "a1")),
    Batch(<<A3>>, R(2, "a2")), Batch(<<A3>>, R(3, "a3")), Batch(<<B2>>, R(2, "a2")),
    Batch(<<B2, B3>>, NoRef), Batch(<<B2>>, R(3, "b3")), Batch(<<Gap3>>, R(3, "a3")),
    Batch(<<A1, A2>>, R(3, "z")), Batch(<<Equivocation>>, NoRef), Batch(<<A1>>, R(5, "z")),
    Batch(<<A1>>, R(2, "a2")), Batch(<<A2, A3>>, R(3, "z")),
    Batch(<< >>, NoRef), Batch(<<A3, A2>>, NoRef), Batch(<<A2>>, R(2, "bad")) }

MCForkSignals ==
  { << >>, <<R(0, "r"), R(1, "a1")>>, <<R(1, "a1"), R(2, "b2")>>, <<R(2, "z")>>,
    <<R(1, "z"), R(2, "z"), R(3, "z")>>, <<R(0, "z")>>, <<R(4, "z")>>, <<R(2, "a2"), R(3, "z")>> }

MCSeedRefs == {NoRef, R(1, "a1"), R(2, "a2"), R(2, "b2"), R(3, "a3")}

MCSeedBatches ==
  {Batch(<<A1>>, NoRef), Batch(<<B2>>, NoRef), Batch(<<A3>>, NoRef), Batch(<<A1, A2>>, NoRef),
   Batch(<<Equivocation>>, NoRef)}
=============================================================================
