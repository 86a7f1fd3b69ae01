--------------------------- MODULE PublishedChain ---------------------------
(***************************************************************************)
(* What the chain buffer promises its readers: the sequence of committed   *)
(* states they may observe (spec/07-invariants.md, INV-1..4, 11, 12, 14).  *)
(* It says nothing of batches, undo logs or sessions.                      *)
(***************************************************************************)
EXTENDS Chain

VARIABLES
  blocks,      \* the buffer, oldest first
  finalized    \* position of the finalized head

vars == <<blocks, finalized>>

WellFormed(bs, f) ==
  /\ Len(bs) >= 1
  /\ f \in 1 .. Len(bs)
  /\ Linked(bs)
  /\ WithinWindow(bs, f)

Init == Len(blocks) = 1 /\ finalized = 1

Publish ==
  /\ WellFormed(blocks', finalized')
  /\ KeepsFinalized(blocks, finalized, blocks', finalized')

Reseed ==
  /\ Len(blocks') = 1 /\ finalized' = 1
  /\ Agrees(blocks, blocks'[1])

Next == Publish \/ Reseed

Spec == Init /\ [][Next]_vars
=============================================================================
