----------------------------- MODULE ChainQuery -----------------------------
(***************************************************************************)
(* Chain::query of chain.rs: one read of the buffer under the read lock.   *)
(* An answer is                                                            *)
(*                                                                         *)
(*   [kind, finalized_head, tail, prev]                                    *)
(*                                                                         *)
(* of kind Window (tail is Some), Empty (tail is None) or Conflict (the    *)
(* InvalidBaseBlock error, with the refs it carries).                      *)
(***************************************************************************)
EXTENDS Chain, SequencesExt

CONSTANTS
  NoRef,    \* the None of an Option<BlockRef>
  NoHash    \* a request without parentBlockHash

Answer(kind, fh, tail, prev) ==
  [kind |-> kind, finalized_head |-> fh, tail |-> tail, prev |-> prev]

(* A root has no region below it.                                          *)
BelowWindow(c, from) == ~IsRoot(FirstBlock(c)) /\ from <= FirstBlock(c).parent_number

(* The position `span` before `pos`, or the first one.                     *)
Back(pos, span) == IF pos > span THEN pos - span ELSE 1

(* Mutant: a root's parent coordinate is emitted like any other.           *)
ParentRefsWithRoot(c, pos) ==
  LET span == SubSeq(c.blocks, Back(pos, RefSpan), pos)
  IN  [i \in DOMAIN span |-> ParentRef(span[i])]

(* Refs of the parents of up to RefSpan + 1 blocks ending at pos, roots    *)
(* left out.                                                               *)
ParentRefs(c, pos) ==
  LET first == Back(pos, RefSpan)
      refs[n \in 0 .. pos] ==
        IF n < first THEN << >>
        ELSE IF IsRoot(c.blocks[n]) THEN refs[n - 1]
        ELSE Append(refs[n - 1], ParentRef(c.blocks[n]))
  IN  IF refs[pos] = << >> THEN <<Ref(FirstBlock(c))>> ELSE refs[pos]

(* Refs of the RefSpan newest blocks.                                      *)
HeadRefs(c) ==
  LET span == SubSeq(c.blocks, Back(Len(c.blocks) + 1, RefSpan), Len(c.blocks))
  IN  [i \in DOMAIN span |-> Ref(span[i])]

HeadRejects(c, from, base_hash) ==
  base_hash # NoHash /\ from = LastBlock(c).number + 1 /\ base_hash # LastBlock(c).hash

(* Mutant: the answer starts one block late.                               *)
TailFromNext(c, pos) == SubSeq(c.blocks, pos + 1, Len(c.blocks))

TailFrom(c, pos) == SubSeq(c.blocks, pos, Len(c.blocks))

Query(c, from, base_hash) ==
  LET pos == BisectPos(c.blocks, from)
      fh  == GetFinalizedHead(c)
  IN  IF BelowWindow(c, from) THEN Answer("Empty", NoRef, << >>, << >>)
      ELSE IF pos \in DOMAIN c.blocks
        THEN IF base_hash # NoHash /\ c.blocks[pos].parent_hash # base_hash
               THEN Answer("Conflict", NoRef, << >>, ParentRefs(c, pos))
               ELSE Answer("Window", fh, TailFrom(c, pos), << >>)
      ELSE IF HeadRejects(c, from, base_hash)
        THEN Answer("Conflict", NoRef, << >>, HeadRefs(c))
      ELSE Answer("Empty", fh, << >>, << >>)

-----------------------------------------------------------------------------
(* What a request resolves to (RP-3) and when its base fails (RP-11).      *)

InWindow(c, from) ==
  /\ from <= LastBlock(c).number
  /\ IsRoot(FirstBlock(c)) \/ from > FirstBlock(c).parent_number

LowestFrom(c, from) ==
  CHOOSE b \in Range(c.blocks) :
    b.number >= from /\ \A x \in Range(c.blocks) : x.number >= from => b.number <= x.number

BaseFails(c, from, base_hash) ==
  /\ base_hash # NoHash
  /\ \/ InWindow(c, from) /\ LowestFrom(c, from).parent_hash # base_hash
     \/ from = LastBlock(c).number + 1 /\ LastBlock(c).hash # base_hash
=============================================================================
