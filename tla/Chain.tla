------------------------------- MODULE Chain -------------------------------
(***************************************************************************)
(* The in-memory chain buffer of crates/data-service-core/src/chain.rs, as *)
(* operators on the value of a `Chain`.  A chain is a record               *)
(*                                                                         *)
(*   [blocks, finalized_head, undo]                                        *)
(*                                                                         *)
(* whose `finalized_head` is an index into `blocks`.  Rust counts from 0   *)
(* and TLA+ from 1, so every index and position here is the code's plus 1. *)
(* Every method of the code that takes &mut self is an operator from a     *)
(* chain (and the arguments) to the next chain, beside one that says which *)
(* of its results the call returns.                                        *)
(***************************************************************************)
EXTENDS Integers, Sequences, FiniteSets

CONSTANTS
  Hash,         \* block hashes, compared and never inspected
  MaxSize,      \* max_size: how many blocks the window is meant to hold
  AutoAdjust,   \* auto_adjust_finalized_head
  RefSpan       \* how far back a conflict's refs reach: 100 in the code

ASSUME MaxSizeAssumption == MaxSize \in Nat \ {0}
ASSUME AutoAdjustAssumption == AutoAdjust \in BOOLEAN
ASSUME RefSpanAssumption == RefSpan \in Nat \ {0}

-----------------------------------------------------------------------------
(* Values.                                                                 *)

BlockRef == [number : Nat, hash : Hash]

Block == [number : Nat, hash : Hash, parent_number : Nat, parent_hash : Hash]

(* The undo log of the open batch; `open` is the Option of the code.       *)
BatchUndo == [open : BOOLEAN, intact : Nat, removed : Seq(Block), finalized_head : Nat]

NoUndo == [open |-> FALSE, intact |-> 0, removed |-> << >>, finalized_head |-> 0]

ChainState == [blocks : Seq(Block), finalized_head : Nat, undo : BatchUndo]

Ref(b) == [number |-> b.number, hash |-> b.hash]

ParentRef(b) == [number |-> b.parent_number, hash |-> b.parent_hash]

IsChain(a, b) == Ref(a) = ParentRef(b)

(* A root's parent coordinate repeats its own height and names no block.   *)
IsRoot(b) == b.parent_number = b.number

NewChain(base) == [blocks |-> <<base>>, finalized_head |-> 1, undo |-> NoUndo]

(* INV-2: numbers ascend and every block names the one before it.          *)
Linked(blocks) ==
  /\ \A i, j \in DOMAIN blocks : i < j => blocks[i].number < blocks[j].number
  /\ \A i \in 1 .. Len(blocks) - 1 : IsChain(blocks[i], blocks[i + 1])

-----------------------------------------------------------------------------
(* Getters.                                                                *)

FirstBlock(c) == c.blocks[1]

LastBlock(c) == c.blocks[Len(c.blocks)]

GetHead(c) == Ref(LastBlock(c))

GetFinalizedHead(c) == Ref(c.blocks[c.finalized_head])

WindowExcess(c) == IF Len(c.blocks) > MaxSize THEN Len(c.blocks) - MaxSize ELSE 0

(* bisect: the search from lo on, `width` blocks wide, halved until none   *)
(* is left.  lo counts from 0 as in the code, the position from 1.         *)
BisectPos(blocks, target) ==
  LET search[width \in 0 .. Len(blocks)] ==
        [lo \in 0 .. Len(blocks) - width |->
           LET half == width \div 2
               mid  == lo + half
           IN  IF width = 0 THEN lo
               ELSE IF blocks[mid + 1].number < target THEN search[width - half - 1][mid + 1]
               ELSE search[half][lo]]
  IN  search[Len(blocks)][0] + 1

HeldAt(c, pos, n) == pos \in DOMAIN c.blocks /\ c.blocks[pos].number = n

HoldsNumber(c, n) == \E i \in DOMAIN c.blocks : c.blocks[i].number = n

(* The buffered block at a height; the heights are unique (INV-2).         *)
BlockAt(c, n) == c.blocks[CHOOSE i \in DOMAIN c.blocks : c.blocks[i].number = n]

-----------------------------------------------------------------------------
(* Batch atomicity: the undo log.                                          *)

BeginBatch(c) ==
  [c EXCEPT !.undo = [open           |-> TRUE,
                      intact         |-> Len(c.blocks),
                      removed        |-> << >>,
                      finalized_head |-> c.finalized_head]]

CommitBatch(c) == [c EXCEPT !.undo = NoUndo]

(* Mutant: a rollback restores the blocks and forgets the finalized head.  *)
RollbackKeepsFinality(c) ==
  IF c.undo.open
    THEN [c EXCEPT !.blocks = SubSeq(@, 1, c.undo.intact) \o c.undo.removed, !.undo = NoUndo]
    ELSE c

RollbackBatch(c) ==
  IF c.undo.open
    THEN [blocks         |-> SubSeq(c.blocks, 1, c.undo.intact) \o c.undo.removed,
          finalized_head |-> c.undo.finalized_head,
          undo           |-> NoUndo]
    ELSE c

(* Mutant: the originals of a second truncation land behind the first's.   *)
RecordRemovalMisordered(c, keep) ==
  IF c.undo.open /\ keep < c.undo.intact
    THEN [c.undo EXCEPT !.removed = @ \o SubSeq(c.blocks, keep + 1, c.undo.intact),
                        !.intact = keep]
    ELSE c.undo

(* The undo log once everything above the first `keep` blocks is dropped.  *)
RecordRemoval(c, keep) ==
  IF c.undo.open /\ keep < c.undo.intact
    THEN [c.undo EXCEPT !.removed = SubSeq(c.blocks, keep + 1, c.undo.intact) \o @,
                        !.intact = keep]
    ELSE c.undo

-----------------------------------------------------------------------------
(* push.                                                                   *)

SameBlock(a, b) == Ref(a) = Ref(b) /\ ParentRef(a) = ParentRef(b)

(* Mutant: a seed is held against the buffered block by hash alone.        *)
ContradictsByHash(c, seed) ==
  HoldsNumber(c, seed.number) /\ BlockAt(c, seed.number).hash # seed.hash

(* A re-seed whose ref or parent link the buffer holds otherwise (FM-30).  *)
Contradicts(c, seed) ==
  HoldsNumber(c, seed.number) /\ ~SameBlock(BlockAt(c, seed.number), seed)

(* Mutant: the finality guard lets the parent of the finalized head in.    *)
WritesBelowFinalityLoose(c, pos) == pos < c.finalized_head - 1

(* The block would replace a child of a block below the finalized head.    *)
WritesBelowFinality(c, pos) == pos < c.finalized_head

Descends(b) == b.parent_number >= b.number

(* Which result push returns: Absorbed, Inserted (at the head, or by a     *)
(* reorg that truncates) or the integrity violation.                       *)
PushOutcome(c, b) ==
  LET at   == BisectPos(c.blocks, b.number)
      last == LastBlock(c)
      pos  == BisectPos(c.blocks, b.parent_number)
  IN  IF at \in DOMAIN c.blocks /\ Ref(c.blocks[at]) = Ref(b)
        THEN IF SameBlock(c.blocks[at], b) THEN "Absorbed" ELSE "RefEquivocation"
      ELSE IF Descends(b) THEN "DescendingHeight"
      ELSE IF last.number = b.parent_number
        THEN IF IsChain(last, b) THEN "Appended" ELSE "ParentHashMismatch"
      ELSE IF WritesBelowFinality(c, pos) THEN "WriteBelowFinality"
      ELSE IF ~HeldAt(c, pos, b.parent_number) THEN "ParentNotBuffered"
      ELSE IF c.blocks[pos].hash # b.parent_hash THEN "ParentHashMismatch"
      ELSE "Reorged"

Inserted == {"Appended", "Reorged"}

PushAccepted == Inserted \cup {"Absorbed"}

PushRejected == {"RefEquivocation", "DescendingHeight", "ParentHashMismatch",
                 "WriteBelowFinality", "ParentNotBuffered"}

(* Truncate to the first `keep` blocks, remember the originals, append.    *)
ReplaceAbove(c, keep, b) ==
  [c EXCEPT !.blocks = Append(SubSeq(@, 1, keep), b),
            !.undo = RecordRemoval(c, keep)]

Push(c, b) ==
  LET outcome == PushOutcome(c, b)
  IN  IF outcome = "Appended" THEN [c EXCEPT !.blocks = Append(@, b)]
      ELSE IF outcome = "Reorged"
        THEN ReplaceAbove(c, BisectPos(c.blocks, b.parent_number), b)
      ELSE c

-----------------------------------------------------------------------------
(* finalize.                                                               *)

(* Which case of finalize a report meets.  Regressive, WholeBuffer and     *)
(* Buffered are the Ok results.                                            *)
FinalizeOutcome(c, head) ==
  LET pos == BisectPos(c.blocks, head.number)
  IN  IF head.number < c.blocks[c.finalized_head].number THEN "Regressive"
      ELSE IF head.number > LastBlock(c).number THEN "WholeBuffer"
      ELSE IF ~HeldAt(c, pos, head.number) THEN "UnbufferedFinality"
      ELSE IF c.blocks[pos].hash # head.hash THEN "FinalityHashMismatch"
      ELSE "Buffered"

FinalizeAccepted == {"Regressive", "WholeBuffer", "Buffered"}

Finalize(c, head) ==
  LET outcome == FinalizeOutcome(c, head)
      pos     == BisectPos(c.blocks, head.number)
  IN  IF outcome = "WholeBuffer" THEN [c EXCEPT !.finalized_head = Len(c.blocks)]
      ELSE IF outcome = "Buffered"
        THEN [c EXCEPT !.finalized_head = IF pos > @ THEN pos ELSE @]
      ELSE c

-----------------------------------------------------------------------------
(* compact.                                                                *)

ForceAdvances(c) == AutoAdjust /\ c.finalized_head <= WindowExcess(c)

(* Mutant: eviction stops one block short of the window.                   *)
TrimShort(c) == IF WindowExcess(c) > 1 THEN WindowExcess(c) - 1 ELSE 0

(* How many of the oldest blocks are dropped; none is above finality.      *)
Trim(c) ==
  LET below == c.finalized_head - 1
  IN  IF ForceAdvances(c) \/ WindowExcess(c) <= below THEN WindowExcess(c) ELSE below

Compact(c) ==
  LET trim == Trim(c)
      fh   == IF ForceAdvances(c) THEN WindowExcess(c) + 1 ELSE c.finalized_head
  IN  [c EXCEPT !.blocks = SubSeq(@, trim + 1, Len(@)),
                !.finalized_head = fh - trim]

-----------------------------------------------------------------------------
(* What is said of chains.                                                 *)

(* INV-4: over the window only when the finalized head, sitting on the     *)
(* oldest block, forbids eviction and auto-adjust is off.                  *)
WithinWindow(bs, f) == Len(bs) <= MaxSize \/ (~AutoAdjust /\ f = 1)

(* INV-11, INV-12, INV-14: from (bs, f) to (bs2, f2) finality does not     *)
(* retreat, and a finalized block stays, finalized, unless it left at the  *)
(* old end.                                                                *)
KeepsFinalized(bs, f, bs2, f2) ==
  /\ bs2[f2].number >= bs[f].number
  /\ \A i \in 1 .. f :
       bs[i].number >= bs2[1].number => \E j \in 1 .. f2 : bs2[j] = bs[i]

(* A re-seed may replace the buffer by any single block it does not hold   *)
(* otherwise (WP-20).                                                      *)
Agrees(bs, seed) ==
  \A i \in DOMAIN bs : bs[i].number = seed.number => bs[i] = seed

(* A chain readers may be shown, apart from the window bound.              *)
WellFormedChain(c) ==
  /\ c \in ChainState
  /\ Len(c.blocks) >= 1
  /\ c.finalized_head \in 1 .. Len(c.blocks)
  /\ Linked(c.blocks)
  /\ c.undo.open => c.undo.intact <= Len(c.blocks)

(* The undo log of c leads back to the blocks orig with finalized head f,  *)
(* and has saved nothing at or below f.                                    *)
UndoLeadsTo(c, orig, f) ==
  /\ c.undo.open
  /\ c.undo.intact \in f .. Len(c.blocks)
  /\ SubSeq(c.blocks, 1, c.undo.intact) \o c.undo.removed = orig
  /\ c.undo.finalized_head = f
=============================================================================
