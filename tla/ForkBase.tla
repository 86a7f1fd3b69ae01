------------------------------ MODULE ForkBase ------------------------------
(***************************************************************************)
(* Chain::get_fork_base of chain.rs: where a fork signal sends the session *)
(* back to.  `prev` are the refs the signal carries, oldest first.         *)
(***************************************************************************)
EXTENDS Chain, FiniteSetsExt

CONSTANT NoRef   \* the None of an Option<BlockRef>

(* Mutant: refs at the block's own height are popped with those above it.  *)
PopAtOrAbove(prev, k, n) == Max({0} \cup {j \in 1 .. k : prev[j].number < n})

(* Popping refs off the end of the first k while they are above height n.  *)
PopAbove(prev, k, n) == Max({0} \cup {j \in 1 .. k : prev[j].number <= n})

(* The lowest position the walk may return: the finalized head itself.     *)
ForkFloor(c) == c.finalized_head

GetForkBase(c, prev) ==
  LET walk[top \in 0 .. Len(c.blocks)] ==
        [k \in 0 .. Len(prev) |->
          IF top < ForkFloor(c) THEN NoRef
          ELSE LET head == Ref(c.blocks[top])
                   fh   == PopAbove(prev, k, head.number)
               IN  IF fh = 0 \/ prev[fh] = head THEN head ELSE walk[top - 1][fh]]
  IN  walk[Len(c.blocks)][Len(prev)]

-----------------------------------------------------------------------------
(* What a fork base is meant to be (WP-10), without a walk.                *)

AscendingRefs(prev) == \A i, j \in DOMAIN prev : i < j => prev[i].number < prev[j].number

Unfinalized(c) == {c.blocks[i] : i \in c.finalized_head .. Len(c.blocks)}

Signalled(c, prev) ==
  {b \in Unfinalized(c) : \E i \in DOMAIN prev : prev[i] = Ref(b)}

BelowEveryRef(c, prev) ==
  {b \in Unfinalized(c) : \A i \in DOMAIN prev : b.number < prev[i].number}

Newest(bs) == CHOOSE b \in bs : \A x \in bs : x.number <= b.number

(* The newest signalled block; failing that, one step of descent; failing  *)
(* that, the divergence is below finality.                                 *)
RebaseTarget(c, prev) ==
  LET candidates == IF Signalled(c, prev) # {} THEN Signalled(c, prev) ELSE BelowEveryRef(c, prev)
  IN  IF candidates = {} THEN NoRef ELSE Ref(Newest(candidates))
=============================================================================
