---------------------------- MODULE ChainLemmas ----------------------------
(***************************************************************************)
(* What the methods of chain.rs keep, for every chain, block and report:   *)
(* the facts the invariance proofs of the specifications that use the      *)
(* chain rest on.                                                          *)
(***************************************************************************)
EXTENDS Chain, SequenceTheorems, WellFoundedInduction, TLAPS

(* A block above its parent, appended to the parent, keeps the shape.      *)
LEMMA AppendLinked ==
  ASSUME NEW s \in Seq(Block), Len(s) >= 1, Linked(s),
         NEW b \in Block, IsChain(s[Len(s)], b), ~Descends(b)
  PROVE  Append(s, b) \in Seq(Block) /\ Linked(Append(s, b))
<1> DEFINE t == Append(s, b)
<1>1. t \in Seq(Block) /\ Len(t) = Len(s) + 1 /\ Len(s) \in Nat
  OBVIOUS
<1>2. \A i \in 1 .. Len(s) : t[i] = s[i]
  OBVIOUS
<1>3. t[Len(s) + 1] = b
  OBVIOUS
<1> HIDE DEF t
<1>4. s[Len(s)].number < b.number
  <2>1. s[Len(s)] \in Block
    OBVIOUS
  <2>2. s[Len(s)].number = b.parent_number
    BY DEF IsChain, Ref, ParentRef
  <2> QED BY <2>1, <2>2 DEF Descends, Block
<1>5. \A i, j \in DOMAIN t : i < j => t[i].number < t[j].number
  <2> SUFFICES ASSUME NEW i \in DOMAIN t, NEW j \in DOMAIN t, i < j
               PROVE  t[i].number < t[j].number
    OBVIOUS
  <2>1. i \in 1 .. Len(s) /\ j \in 1 .. Len(s) + 1 /\ t[i] = s[i]
    BY <1>1, <1>2
  <2>2. CASE j \in 1 .. Len(s)
    BY <2>1, <2>2, <1>2 DEF Linked
  <2>3. CASE j = Len(s) + 1
    <3>0. s[i] \in Block /\ s[Len(s)] \in Block
      BY <2>1
    <3>1. s[i].number \in Nat /\ s[Len(s)].number \in Nat /\ b.number \in Nat
      BY <3>0 DEF Block
    <3>2. i < Len(s) => s[i].number < s[Len(s)].number
      BY <2>1, <1>1 DEF Linked
    <3> QED BY <2>1, <2>3, <1>3, <1>4, <3>1, <3>2, <1>1
  <2> QED BY <2>1, <2>2, <2>3
<1>6. \A i \in 1 .. Len(t) - 1 : IsChain(t[i], t[i + 1])
  <2> SUFFICES ASSUME NEW i \in 1 .. Len(s) PROVE IsChain(t[i], t[i + 1])
    BY <1>1
  <2>1. CASE i < Len(s)
    <3>1. t[i] = s[i] /\ t[i + 1] = s[i + 1] /\ i \in 1 .. Len(s) - 1
      BY <2>1, <1>1, <1>2
    <3> QED BY <3>1 DEF Linked
  <2>2. CASE i = Len(s)
    BY <2>2, <1>2, <1>3
  <2> QED BY <2>1, <2>2
<1> QED BY <1>1, <1>5, <1>6 DEF Linked, t

(* Any stretch of a linked buffer is linked.                               *)
LEMMA SubSeqLinked ==
  ASSUME NEW s \in Seq(Block), Linked(s),
         NEW m \in 1 .. Len(s), NEW n \in m .. Len(s)
  PROVE  /\ SubSeq(s, m, n) \in Seq(Block)
         /\ Len(SubSeq(s, m, n)) = n - m + 1
         /\ \A i \in 1 .. n - m + 1 : SubSeq(s, m, n)[i] = s[m + i - 1]
         /\ Linked(SubSeq(s, m, n))
<1> DEFINE t == SubSeq(s, m, n)
<1>1. t \in Seq(Block) /\ Len(t) = n - m + 1 /\ Len(s) \in Nat
  OBVIOUS
<1>2. \A i \in 1 .. n - m + 1 : t[i] = s[m + i - 1]
  OBVIOUS
<1> HIDE DEF t
<1>3. \A i, j \in DOMAIN t : i < j => t[i].number < t[j].number
  <2> SUFFICES ASSUME NEW i \in DOMAIN t, NEW j \in DOMAIN t, i < j
               PROVE  t[i].number < t[j].number
    OBVIOUS
  <2>1. i \in 1 .. n - m + 1 /\ j \in 1 .. n - m + 1
    BY <1>1
  <2>2. m + i - 1 \in DOMAIN s /\ m + j - 1 \in DOMAIN s /\ m + i - 1 < m + j - 1
    BY <2>1, <1>1
  <2> QED BY <2>1, <2>2, <1>2 DEF Linked
<1>4. \A i \in 1 .. Len(t) - 1 : IsChain(t[i], t[i + 1])
  <2> SUFFICES ASSUME NEW i \in 1 .. Len(t) - 1 PROVE IsChain(t[i], t[i + 1])
    OBVIOUS
  <2>1. i \in 1 .. n - m + 1 /\ i + 1 \in 1 .. n - m + 1
    BY <1>1
  <2>2. m + i - 1 \in 1 .. Len(s) - 1 /\ m + (i + 1) - 1 = (m + i - 1) + 1
    BY <2>1, <1>1
  <2> QED BY <2>1, <2>2, <1>2 DEF Linked
<1> QED BY <1>1, <1>2, <1>3, <1>4 DEF Linked, t

(* The record of a chain whose fields have their types.                    *)
LEMMA ChainFields ==
  ASSUME NEW c \in ChainState
  PROVE  /\ c.blocks \in Seq(Block) /\ c.finalized_head \in Nat
         /\ c.undo.open \in BOOLEAN /\ c.undo.intact \in Nat
         /\ c.undo.removed \in Seq(Block) /\ c.undo.finalized_head \in Nat
         /\ Len(c.blocks) \in Nat
BY DEF ChainState, BatchUndo

(* Truncating at or above the finalized head and appending a child of the  *)
(* last kept block keeps the chain well formed and everything finalized.   *)
LEMMA ReplaceAboveKeeps ==
  ASSUME NEW c, WellFormedChain(c), NEW b \in Block,
         NEW keep \in c.finalized_head .. Len(c.blocks),
         IsChain(c.blocks[keep], b), ~Descends(b)
  PROVE  LET d == ReplaceAbove(c, keep, b)
         IN  /\ WellFormedChain(d)
             /\ d.finalized_head = c.finalized_head
             /\ Len(d.blocks) = keep + 1
             /\ \A i \in 1 .. keep : d.blocks[i] = c.blocks[i]
<1> DEFINE d == ReplaceAbove(c, keep, b)
           s == SubSeq(c.blocks, 1, keep)
<1>1. /\ c \in ChainState /\ Len(c.blocks) >= 1 /\ Linked(c.blocks)
      /\ c.finalized_head \in 1 .. Len(c.blocks)
      /\ c.undo.open => c.undo.intact <= Len(c.blocks)
  BY DEF WellFormedChain
<1>2. c.blocks \in Seq(Block) /\ Len(c.blocks) \in Nat /\ keep \in 1 .. Len(c.blocks)
  BY <1>1, ChainFields
<1>3. /\ s \in Seq(Block) /\ Len(s) = keep /\ Linked(s)
      /\ \A i \in 1 .. keep : s[i] = c.blocks[i]
  BY <1>1, <1>2, SubSeqLinked
<1> HIDE DEF s
<1>4. Append(s, b) \in Seq(Block) /\ Linked(Append(s, b))
  BY <1>2, <1>3, AppendLinked
<1>5. Len(Append(s, b)) = keep + 1 /\ \A i \in 1 .. keep : Append(s, b)[i] = s[i]
  BY <1>2, <1>3
<1>6. RecordRemoval(c, keep) \in BatchUndo
  <2>1. c.undo \in BatchUndo
    BY <1>1 DEF ChainState
  <2>2. CASE c.undo.open /\ keep < c.undo.intact
    <3>1. keep \in Nat /\ c.undo.intact \in Nat /\ c.undo.removed \in Seq(Block)
      BY <1>1, <1>2, ChainFields
    <3>2. SubSeq(c.blocks, keep + 1, c.undo.intact) \o c.undo.removed \in Seq(Block)
      <4>1. SubSeq(c.blocks, keep + 1, c.undo.intact) \in Seq(Block)
        BY <1>1, <1>2, <2>2, <3>1
      <4> QED BY <4>1, <3>1
    <3> QED BY <2>1, <2>2, <3>1, <3>2 DEF RecordRemoval, BatchUndo
  <2>3. CASE ~(c.undo.open /\ keep < c.undo.intact)
    BY <2>1, <2>3 DEF RecordRemoval
  <2> QED BY <2>2, <2>3
<1>7. /\ d.blocks = Append(s, b) /\ d.finalized_head = c.finalized_head
      /\ d.undo = RecordRemoval(c, keep)
      /\ d \in ChainState
  BY <1>1, <1>4, <1>6 DEF ReplaceAbove, ChainState, s
<1>8. d.undo.open => d.undo.intact <= keep + 1
  <2>1. c.undo.intact \in Nat /\ keep \in Nat
    BY <1>1, <1>2, ChainFields
  <2>2. CASE c.undo.open /\ keep < c.undo.intact
    BY <1>1, <1>7, <2>1, <2>2 DEF RecordRemoval, ChainState, BatchUndo
  <2>3. CASE c.undo.open /\ ~(keep < c.undo.intact)
    BY <1>7, <2>1, <2>3 DEF RecordRemoval
  <2>4. CASE ~c.undo.open
    BY <1>7, <2>4 DEF RecordRemoval
  <2> QED BY <2>2, <2>3, <2>4
<1> HIDE DEF d
<1> QED BY <1>1, <1>2, <1>3, <1>4, <1>5, <1>7, <1>8 DEF WellFormedChain, d

(* Sequences of blocks that agree up to n have the same first n elements.  *)
LEMMA SamePrefix ==
  ASSUME NEW s \in Seq(Block), NEW t \in Seq(Block), NEW n \in Nat,
         n <= Len(s), n <= Len(t), \A i \in 1 .. n : s[i] = t[i]
  PROVE  SubSeq(s, 1, n) = SubSeq(t, 1, n)
<1>1. SubSeq(s, 1, n) \in Seq(Block) /\ SubSeq(t, 1, n) \in Seq(Block)
      /\ Len(SubSeq(s, 1, n)) = n /\ Len(SubSeq(t, 1, n)) = n
  OBVIOUS
<1>2. \A i \in 1 .. n : SubSeq(s, 1, n)[i] = SubSeq(t, 1, n)[i]
  OBVIOUS
<1> QED BY <1>1, <1>2, SeqEqual

(* A prefix, the stretch after it and a third part, however grouped.       *)
LEMMA PrefixStretchRest ==
  ASSUME NEW s \in Seq(Block), NEW rest \in Seq(Block),
         NEW k \in Nat, NEW n \in Nat, k <= n, n <= Len(s)
  PROVE  SubSeq(s, 1, k) \o (SubSeq(s, k + 1, n) \o rest) = SubSeq(s, 1, n) \o rest
<1> DEFINE p == SubSeq(s, 1, k)
           q == SubSeq(s, k + 1, n)
<1>1. p \in Seq(Block) /\ q \in Seq(Block)
  OBVIOUS
<1>2. p \o q = SubSeq(s, 1, n)
  <2>1. 1 \in 1 .. Len(s) + 1 /\ k \in 1 - 1 .. Len(s) /\ n \in k .. Len(s)
    OBVIOUS
  <2> QED BY <2>1, ConcatAdjacentSubSeq, Zenon
<1> HIDE DEF p, q
<1>3. (p \o q) \o rest = p \o (q \o rest)
  BY <1>1, ConcatAssociative
<1> QED BY <1>2, <1>3 DEF p, q

(* The undo log still leads back after such a truncation: what it drops of *)
(* the original blocks is saved in front of what was saved before.         *)
LEMMA ReplaceAboveUndo ==
  ASSUME NEW c, WellFormedChain(c), NEW b \in Block,
         NEW keep \in c.finalized_head .. Len(c.blocks),
         NEW orig, NEW f \in Nat, f <= c.finalized_head,
         UndoLeadsTo(c, orig, f)
  PROVE  UndoLeadsTo(ReplaceAbove(c, keep, b), orig, f)
<1> DEFINE d == ReplaceAbove(c, keep, b)
           s == SubSeq(c.blocks, 1, keep)
<1>1. /\ c \in ChainState /\ c.finalized_head \in 1 .. Len(c.blocks)
      /\ c.undo.open /\ c.undo.intact \in f .. Len(c.blocks)
      /\ SubSeq(c.blocks, 1, c.undo.intact) \o c.undo.removed = orig
      /\ c.undo.finalized_head = f
  BY DEF WellFormedChain, UndoLeadsTo
<1>2. /\ c.blocks \in Seq(Block) /\ Len(c.blocks) \in Nat /\ c.undo \in BatchUndo
      /\ c.undo.removed \in Seq(Block) /\ c.undo.intact \in Nat
      /\ keep \in 1 .. Len(c.blocks) /\ f <= keep
  BY <1>1, ChainFields DEF ChainState
<1>3. d.blocks = Append(s, b) /\ d.undo = RecordRemoval(c, keep)
  BY <1>1 DEF ReplaceAbove, ChainState
<1>4. s \in Seq(Block) /\ Len(s) = keep /\ \A i \in 1 .. keep : s[i] = c.blocks[i]
  BY <1>2
<1> HIDE DEF s, d
<1>5. /\ Append(s, b) \in Seq(Block) /\ Len(Append(s, b)) = keep + 1
      /\ \A i \in 1 .. keep : Append(s, b)[i] = c.blocks[i]
  BY <1>2, <1>4
<1>6. CASE keep < c.undo.intact
  <2> DEFINE saved == SubSeq(c.blocks, keep + 1, c.undo.intact)
  <2>1. /\ d.undo.open /\ d.undo.intact = keep /\ d.undo.finalized_head = f
        /\ d.undo.removed = saved \o c.undo.removed
    BY <1>1, <1>2, <1>3, <1>6 DEF RecordRemoval, BatchUndo
  <2>2. SubSeq(Append(s, b), 1, keep) = SubSeq(c.blocks, 1, keep)
    <3>1. keep \in Nat /\ keep <= Len(Append(s, b)) /\ keep <= Len(c.blocks)
      BY <1>2, <1>5
    <3> QED BY <1>2, <1>5, <3>1, SamePrefix
  <2>3. SubSeq(c.blocks, 1, keep) \o (saved \o c.undo.removed) = orig
    <3>1. keep \in Nat /\ keep <= c.undo.intact /\ c.undo.intact <= Len(c.blocks)
      BY <1>1, <1>2, <1>6
    <3>0. c.blocks \in Seq(Block) /\ c.undo.removed \in Seq(Block) /\ c.undo.intact \in Nat
      BY <1>2
    <3>2. SubSeq(c.blocks, 1, keep) \o (saved \o c.undo.removed)
            = SubSeq(c.blocks, 1, c.undo.intact) \o c.undo.removed
      BY <3>0, <3>1, PrefixStretchRest, ZenonT(30)
    <3> QED BY <1>1, <3>2, Zenon
  <2> HIDE DEF saved
  <2>4. SubSeq(d.blocks, 1, d.undo.intact) \o d.undo.removed = orig
    BY <1>3, <2>1, <2>2, <2>3
  <2>5. d.undo.intact \in f .. Len(d.blocks)
    BY <1>2, <1>3, <1>5, <2>1
  <2> QED BY <2>1, <2>4, <2>5 DEF UndoLeadsTo, d
<1>7. CASE ~(keep < c.undo.intact)
  <2>1. d.undo = c.undo
    BY <1>3, <1>7 DEF RecordRemoval
  <2>2. SubSeq(Append(s, b), 1, c.undo.intact) = SubSeq(c.blocks, 1, c.undo.intact)
    <3>1. /\ c.undo.intact <= Len(c.blocks) /\ c.undo.intact <= Len(Append(s, b))
          /\ \A i \in 1 .. c.undo.intact : Append(s, b)[i] = c.blocks[i]
      BY <1>1, <1>2, <1>5, <1>7
    <3> QED BY <1>2, <1>5, <3>1, SamePrefix
  <2>3. d.undo.intact \in f .. Len(d.blocks)
    BY <1>1, <1>2, <1>3, <1>5, <1>7, <2>1
  <2> QED BY <1>1, <1>3, <2>1, <2>2, <2>3 DEF UndoLeadsTo, d
<1> QED BY <1>6, <1>7

(* push: the chain stays well formed, its finalized prefix stays in place. *)
LEMMA PushKeeps ==
  ASSUME NEW c, WellFormedChain(c), NEW b \in Block
  PROVE  LET d == Push(c, b)
         IN  /\ WellFormedChain(d)
             /\ d.finalized_head = c.finalized_head
             /\ \A i \in 1 .. c.finalized_head : d.blocks[i] = c.blocks[i]
             /\ \A orig : \A f \in 1 .. c.finalized_head :
                  UndoLeadsTo(c, orig, f) => UndoLeadsTo(d, orig, f)
<1> DEFINE d == Push(c, b)
           pos == BisectPos(c.blocks, b.parent_number)
<1>0. /\ c \in ChainState /\ Len(c.blocks) >= 1 /\ Linked(c.blocks)
      /\ c.finalized_head \in 1 .. Len(c.blocks)
      /\ c.undo.open => c.undo.intact <= Len(c.blocks)
  BY DEF WellFormedChain
<1>1. /\ c.blocks \in Seq(Block) /\ Len(c.blocks) \in Nat /\ c.finalized_head \in Nat
      /\ c.undo.intact \in Nat
  BY <1>0, ChainFields
<1>2. CASE PushOutcome(c, b) = "Appended"
  <2>1. IsChain(c.blocks[Len(c.blocks)], b) /\ ~Descends(b)
    BY <1>2 DEF PushOutcome, LastBlock
  <2>2. d = [c EXCEPT !.blocks = Append(c.blocks, b)]
    BY <1>2 DEF Push
  <2>3. Append(c.blocks, b) \in Seq(Block) /\ Linked(Append(c.blocks, b))
    BY <1>0, <1>1, <2>1, AppendLinked
  <2>4. /\ d \in ChainState /\ d.blocks = Append(c.blocks, b)
        /\ d.finalized_head = c.finalized_head /\ d.undo = c.undo
    BY <1>0, <2>2, <2>3 DEF ChainState
  <2>5. /\ Len(d.blocks) = Len(c.blocks) + 1
        /\ \A i \in 1 .. Len(c.blocks) : d.blocks[i] = c.blocks[i]
    BY <1>1, <2>4
  <2> HIDE DEF d
  <2>6. WellFormedChain(d) /\ \A i \in 1 .. c.finalized_head : d.blocks[i] = c.blocks[i]
    BY <1>0, <1>1, <2>3, <2>4, <2>5 DEF WellFormedChain
  <2>7. ASSUME NEW orig, NEW f \in 1 .. c.finalized_head, UndoLeadsTo(c, orig, f)
        PROVE  UndoLeadsTo(d, orig, f)
    <3>1. c.undo.intact \in f .. Len(c.blocks)
      BY <2>7 DEF UndoLeadsTo
    <3>2. /\ c.undo.intact <= Len(c.blocks) /\ c.undo.intact <= Len(d.blocks)
          /\ \A i \in 1 .. c.undo.intact : d.blocks[i] = c.blocks[i]
      BY <1>1, <2>5, <3>1
    <3>3. SubSeq(d.blocks, 1, c.undo.intact) = SubSeq(c.blocks, 1, c.undo.intact)
      BY <1>1, <2>3, <2>4, <3>2, SamePrefix
    <3>4. d.undo.intact \in f .. Len(d.blocks)
      BY <1>1, <2>4, <2>5, <3>1
    <3> QED BY <2>4, <2>7, <3>3, <3>4 DEF UndoLeadsTo
  <2> QED BY <2>4, <2>6, <2>7 DEF d
<1>3. CASE PushOutcome(c, b) = "Reorged"
  <2>1. /\ ~Descends(b) /\ ~WritesBelowFinality(c, pos) /\ HeldAt(c, pos, b.parent_number)
        /\ c.blocks[pos].hash = b.parent_hash
    BY <1>3 DEF PushOutcome
  <2>2. pos \in c.finalized_head .. Len(c.blocks)
    BY <1>0, <1>1, <2>1 DEF WritesBelowFinality, HeldAt
  <2>3. IsChain(c.blocks[pos], b)
    BY <2>1 DEF HeldAt, IsChain, Ref, ParentRef
  <2>4. d = ReplaceAbove(c, pos, b)
    BY <1>3 DEF Push
  <2> HIDE DEF d, pos
  <2>5. /\ WellFormedChain(d) /\ d.finalized_head = c.finalized_head
        /\ \A i \in 1 .. pos : d.blocks[i] = c.blocks[i]
    BY <2>1, <2>2, <2>3, <2>4, ReplaceAboveKeeps
  <2>6. ASSUME NEW orig, NEW f \in 1 .. c.finalized_head, UndoLeadsTo(c, orig, f)
        PROVE  UndoLeadsTo(d, orig, f)
    <3>1. f \in Nat /\ f <= c.finalized_head
      BY <1>1
    <3> QED BY <2>2, <2>4, <2>6, <3>1, ReplaceAboveUndo
  <2> QED BY <1>1, <2>2, <2>5, <2>6 DEF d
<1>4. CASE PushOutcome(c, b) \notin Inserted
  <2>1. d = c
    BY <1>4 DEF Push, Inserted
  <2> QED BY <2>1
<1> QED BY <1>2, <1>3, <1>4 DEF Inserted

(* finalize: only the finalized head moves, and never back.                *)
LEMMA FinalizeKeeps ==
  ASSUME NEW c, WellFormedChain(c), NEW r \in BlockRef
  PROVE  LET d == Finalize(c, r)
         IN  /\ WellFormedChain(d)
             /\ d.blocks = c.blocks /\ d.undo = c.undo
             /\ d.finalized_head >= c.finalized_head
<1> DEFINE d == Finalize(c, r)
           pos == BisectPos(c.blocks, r.number)
<1>0. /\ c \in ChainState /\ Len(c.blocks) >= 1 /\ Linked(c.blocks)
      /\ c.finalized_head \in 1 .. Len(c.blocks)
      /\ c.undo.open => c.undo.intact <= Len(c.blocks)
      /\ c.blocks \in Seq(Block) /\ Len(c.blocks) \in Nat
  BY ChainFields DEF WellFormedChain
<1>1. \E f \in c.finalized_head .. Len(c.blocks) : d = [c EXCEPT !.finalized_head = f]
  <2>1. CASE FinalizeOutcome(c, r) = "WholeBuffer"
    BY <1>0, <2>1 DEF Finalize
  <2>2. CASE FinalizeOutcome(c, r) = "Buffered"
    <3>1. pos \in 1 .. Len(c.blocks)
      BY <1>0, <2>2 DEF FinalizeOutcome, HeldAt
    <3>2. d = [c EXCEPT !.finalized_head = IF pos > c.finalized_head THEN pos
                                           ELSE c.finalized_head]
      BY <2>2 DEF Finalize
    <3> HIDE DEF pos, d
    <3> QED BY <1>0, <3>1, <3>2
  <2>3. CASE FinalizeOutcome(c, r) \notin {"WholeBuffer", "Buffered"}
    <3>1. d = c
      BY <2>3 DEF Finalize
    <3>2. c = [c EXCEPT !.finalized_head = c.finalized_head]
      BY <1>0 DEF ChainState
    <3> HIDE DEF d
    <3> QED BY <1>0, <3>1, <3>2
  <2> QED BY <2>1, <2>2, <2>3
<1> HIDE DEF d
<1>2. PICK f \in c.finalized_head .. Len(c.blocks) : d = [c EXCEPT !.finalized_head = f]
  BY <1>1
<1>3. d \in ChainState /\ d.blocks = c.blocks /\ d.undo = c.undo /\ d.finalized_head = f
  BY <1>0, <1>2 DEF ChainState
<1> QED BY <1>0, <1>3 DEF WellFormedChain, d

(* compact: the window is restored unless finality forbids it, and what    *)
(* was finalized stays, finalized, or leaves at the old end.               *)
LEMMA CompactKeeps ==
  ASSUME NEW c, WellFormedChain(c), ~c.undo.open
  PROVE  LET d == Compact(c)
         IN  /\ WellFormedChain(d)
             /\ d.undo = c.undo
             /\ WithinWindow(d.blocks, d.finalized_head)
             /\ \A f \in 1 .. c.finalized_head :
                  KeepsFinalized(c.blocks, f, d.blocks, d.finalized_head)
             /\ c.finalized_head = Len(c.blocks) => d.finalized_head = Len(d.blocks)
             /\ \E trim \in 0 .. Len(c.blocks) - 1 :
                  /\ Len(d.blocks) = Len(c.blocks) - trim
                  /\ \A i \in 1 .. Len(c.blocks) - trim : d.blocks[i] = c.blocks[trim + i]
<1> DEFINE d == Compact(c)
           bs == c.blocks
           trim == Trim(c)
           fh == IF ForceAdvances(c) THEN WindowExcess(c) + 1 ELSE c.finalized_head
<1>0. /\ c \in ChainState /\ Len(bs) >= 1 /\ Linked(bs)
      /\ c.finalized_head \in 1 .. Len(bs) /\ bs \in Seq(Block) /\ Len(bs) \in Nat
  BY ChainFields DEF WellFormedChain
<1>1. WindowExcess(c) \in Nat /\ WindowExcess(c) < Len(bs)
  BY <1>0, MaxSizeAssumption DEF WindowExcess
<1>2. trim \in Nat /\ trim < fh /\ fh \in c.finalized_head .. Len(bs)
  BY <1>0, <1>1 DEF Trim, ForceAdvances
<1>3. /\ Len(bs) - trim <= MaxSize \/ (~AutoAdjust /\ fh - trim = 1)
  <2>1. MaxSize \in Nat
    BY MaxSizeAssumption
  <2>2. Len(bs) - WindowExcess(c) <= MaxSize
    BY <1>0, <2>1 DEF WindowExcess
  <2>3. CASE ForceAdvances(c) \/ WindowExcess(c) <= c.finalized_head - 1
    <3>1. trim = WindowExcess(c)
      BY <2>3 DEF Trim
    <3> QED BY <2>2, <3>1
  <2>4. CASE ~(ForceAdvances(c) \/ WindowExcess(c) <= c.finalized_head - 1)
    <3>1. trim = c.finalized_head - 1 /\ fh = c.finalized_head
      BY <2>4 DEF Trim
    <3>2. ~AutoAdjust
      BY <1>0, <1>1, <2>4 DEF ForceAdvances
    <3> QED BY <1>0, <3>1, <3>2
  <2> QED BY <2>3, <2>4
<1>4. /\ d.blocks = SubSeq(bs, trim + 1, Len(bs))
      /\ d.finalized_head = fh - trim
      /\ d.undo = c.undo
      /\ SubSeq(bs, trim + 1, Len(bs)) \in Seq(Block) => d \in ChainState
  <2>1. d = [c EXCEPT !.blocks = SubSeq(bs, trim + 1, Len(bs)), !.finalized_head = fh - trim]
    BY DEF Compact
  <2>2. fh - trim \in Nat
    BY <1>0, <1>2
  <2> HIDE DEF d, trim, fh
  <2> QED BY <1>0, <2>1, <2>2 DEF ChainState
<1> HIDE DEF d, trim, fh
<1>5. /\ d.blocks \in Seq(Block) /\ Len(d.blocks) = Len(bs) - trim /\ Linked(d.blocks)
      /\ \A i \in 1 .. Len(bs) - trim : d.blocks[i] = bs[trim + i]
  <2>1. trim + 1 \in 1 .. Len(bs) /\ Len(bs) \in trim + 1 .. Len(bs)
    BY <1>0, <1>2
  <2> HIDE DEF bs
  <2>2. /\ d.blocks \in Seq(Block) /\ Len(d.blocks) = Len(bs) - (trim + 1) + 1
        /\ Linked(d.blocks)
        /\ \A i \in 1 .. Len(bs) - (trim + 1) + 1 : d.blocks[i] = bs[(trim + 1) + i - 1]
    BY <1>0, <1>4, <2>1, SubSeqLinked
  <2> QED BY <1>0, <1>2, <2>2
<1>6. WellFormedChain(d)
  <2>1. d \in ChainState
    BY <1>4, <1>5
  <2>2. d.finalized_head \in 1 .. Len(d.blocks) /\ Len(d.blocks) >= 1
    BY <1>0, <1>2, <1>4, <1>5
  <2> QED BY <1>4, <1>5, <2>1, <2>2 DEF WellFormedChain
<1>7. WithinWindow(d.blocks, d.finalized_head)
  BY <1>3, <1>4, <1>5 DEF WithinWindow
<1>8. ASSUME NEW f \in 1 .. c.finalized_head
      PROVE  KeepsFinalized(bs, f, d.blocks, d.finalized_head)
  <2>0. f \in 1 .. fh /\ fh \in 1 .. Len(bs) /\ fh - trim \in 1 .. Len(bs) - trim
    BY <1>0, <1>2
  <2>1. d.blocks[d.finalized_head] = bs[fh]
    <3>1. trim + (fh - trim) = fh
      BY <1>2
    <3> QED BY <1>4, <1>5, <2>0, <3>1
  <2>2. bs[fh].number >= bs[f].number
    <3>1. bs[fh] \in Block /\ bs[f] \in Block
      BY <1>0, <2>0
    <3>2. bs[fh].number \in Nat /\ bs[f].number \in Nat
      BY <3>1 DEF Block
    <3>3. f < fh => bs[f].number < bs[fh].number
      BY <1>0, <2>0 DEF Linked
    <3> QED BY <2>0, <3>2, <3>3
  <2>3. ASSUME NEW i \in 1 .. f, bs[i].number >= d.blocks[1].number
        PROVE  \E j \in 1 .. d.finalized_head : d.blocks[j] = bs[i]
    <3>1. d.blocks[1] = bs[trim + 1] /\ trim + 1 \in 1 .. Len(bs)
      BY <1>0, <1>2, <1>5
    <3>2. i \in 1 .. Len(bs) /\ i <= fh
      BY <2>0
    <3>3. bs[i] \in Block /\ bs[trim + 1] \in Block
      BY <1>0, <3>1, <3>2
    <3>4. bs[i].number \in Nat /\ bs[trim + 1].number \in Nat
      BY <3>3 DEF Block
    <3>5. i < trim + 1 => bs[i].number < bs[trim + 1].number
      BY <1>0, <3>1, <3>2 DEF Linked
    <3>6. ~(i < trim + 1)
      BY <2>3, <3>1, <3>4, <3>5
    <3>7. i - trim \in 1 .. fh - trim /\ trim + (i - trim) = i /\ i - trim \in 1 .. Len(bs) - trim
      BY <1>0, <1>2, <3>2, <3>6
    <3>8. d.blocks[i - trim] = bs[i]
      BY <1>5, <3>7
    <3> QED BY <1>4, <3>7, <3>8
  <2> QED BY <2>1, <2>2, <2>3 DEF KeepsFinalized
<1>9. trim \in 0 .. Len(bs) - 1 /\ (c.finalized_head = Len(bs) => d.finalized_head = Len(d.blocks))
  BY <1>0, <1>2, <1>4, <1>5
<1> QED BY <1>4, <1>5, <1>6, <1>7, <1>8, <1>9 DEF d

(* A fresh buffer is a committed chain within its window.                  *)
LEMMA NewChainCommitted ==
  ASSUME NEW seed \in Block
  PROVE  LET c == NewChain(seed)
         IN  /\ WellFormedChain(c) /\ c.undo = NoUndo
             /\ c.finalized_head = 1 /\ Len(c.blocks) = 1 /\ c.blocks[1] = seed
             /\ WithinWindow(c.blocks, c.finalized_head)
<1> DEFINE c == NewChain(seed)
<1>2. c.blocks = <<seed>> /\ c.finalized_head = 1 /\ c.undo = NoUndo /\ c \in ChainState
  BY DEF NewChain, ChainState, NoUndo, BatchUndo
<1>3. c.undo.open = FALSE
  BY <1>2 DEF NoUndo
<1> HIDE DEF c
<1>4. Len(c.blocks) = 1 /\ c.blocks[1] = seed /\ Linked(c.blocks)
  BY <1>2 DEF Linked
<1> QED BY <1>2, <1>3, <1>4, MaxSizeAssumption DEF WellFormedChain, WithinWindow, c

(* The effect of begin_batch, commit_batch and rollback_batch on a chain.  *)
LEMMA BatchScope ==
  ASSUME NEW c \in ChainState
  PROVE  /\ LET d == BeginBatch(c)
            IN  /\ d \in ChainState
                /\ d.blocks = c.blocks /\ d.finalized_head = c.finalized_head
                /\ d.undo.open = TRUE /\ d.undo.intact = Len(c.blocks)
                /\ d.undo.removed = << >> /\ d.undo.finalized_head = c.finalized_head
         /\ LET d == CommitBatch(c)
            IN  /\ d \in ChainState
                /\ d.blocks = c.blocks /\ d.finalized_head = c.finalized_head
                /\ d.undo = NoUndo
         /\ \A orig \in Seq(Block) : \A f \in Nat : UndoLeadsTo(c, orig, f) =>
              LET d == RollbackBatch(c)
              IN  /\ d \in ChainState
                  /\ d.blocks = orig /\ d.finalized_head = f /\ d.undo = NoUndo
<1>1. NoUndo \in BatchUndo
  BY DEF NoUndo, BatchUndo
<1>2. Len(c.blocks) \in Nat /\ c.finalized_head \in Nat
  BY ChainFields
<1>3. CommitBatch(c) \in ChainState /\ CommitBatch(c).undo = NoUndo
      /\ CommitBatch(c).blocks = c.blocks
      /\ CommitBatch(c).finalized_head = c.finalized_head
  BY <1>1 DEF CommitBatch, ChainState
<1>4. /\ BeginBatch(c) \in ChainState
      /\ BeginBatch(c).blocks = c.blocks /\ BeginBatch(c).finalized_head = c.finalized_head
      /\ BeginBatch(c).undo = [open |-> TRUE, intact |-> Len(c.blocks), removed |-> << >>,
                               finalized_head |-> c.finalized_head]
  <2> DEFINE u == [open |-> TRUE, intact |-> Len(c.blocks), removed |-> << >>,
                   finalized_head |-> c.finalized_head]
  <2>1. u \in BatchUndo
    BY <1>2 DEF BatchUndo
  <2>2. BeginBatch(c) = [c EXCEPT !.undo = u]
    BY DEF BeginBatch
  <2> HIDE DEF u
  <2>3. [c EXCEPT !.undo = u] \in ChainState /\ [c EXCEPT !.undo = u].undo = u
        /\ [c EXCEPT !.undo = u].blocks = c.blocks
        /\ [c EXCEPT !.undo = u].finalized_head = c.finalized_head
    BY <2>1 DEF ChainState
  <2> QED BY <2>2, <2>3 DEF u
<1>5. ASSUME NEW orig \in Seq(Block), NEW f \in Nat, UndoLeadsTo(c, orig, f)
      PROVE  /\ RollbackBatch(c) \in ChainState /\ RollbackBatch(c).blocks = orig
             /\ RollbackBatch(c).finalized_head = f /\ RollbackBatch(c).undo = NoUndo
  <2>1. RollbackBatch(c) = [blocks |-> orig, finalized_head |-> f, undo |-> NoUndo]
    BY <1>5 DEF RollbackBatch, UndoLeadsTo
  <2> QED BY <1>1, <2>1 DEF ChainState
<1> QED BY <1>3, <1>4, <1>5

(* Two chains with the same fields are the same chain.                     *)
LEMMA SameChain ==
  ASSUME NEW c \in ChainState, NEW d \in ChainState,
         c.blocks = d.blocks, c.finalized_head = d.finalized_head, c.undo = d.undo
  PROVE  c = d
BY DEF ChainState

(* FM-30: a seed the buffer does not hold otherwise agrees with every      *)
(* block of it.                                                            *)
LEMMA SeedAgrees ==
  ASSUME NEW c, WellFormedChain(c), NEW seed \in Block, ~Contradicts(c, seed)
  PROVE  Agrees(c.blocks, seed)
<1> SUFFICES ASSUME NEW i \in DOMAIN c.blocks, c.blocks[i].number = seed.number
             PROVE  c.blocks[i] = seed
  BY DEF Agrees
<1>1. HoldsNumber(c, seed.number)
  BY DEF HoldsNumber
<1>2. PICK j \in DOMAIN c.blocks :
        c.blocks[j].number = seed.number /\ BlockAt(c, seed.number) = c.blocks[j]
  BY DEF BlockAt
<1>3. SameBlock(c.blocks[j], seed)
  BY <1>1, <1>2 DEF Contradicts
<1>4. c.blocks \in Seq(Block) /\ Linked(c.blocks)
  BY ChainFields DEF WellFormedChain
<1>5. c.blocks[i] \in Block /\ c.blocks[j] \in Block /\ i \in Int /\ j \in Int
  BY <1>4
<1>6. i = j
  <2>1. c.blocks[i].number \in Nat /\ c.blocks[j].number \in Nat
    BY <1>5 DEF Block
  <2> QED BY <1>2, <1>4, <1>5, <2>1 DEF Linked
<1> QED BY <1>3, <1>5, <1>6 DEF SameBlock, Ref, ParentRef, Block

(* Induction over the naturals, as a statement about sets: what holds of 0 *)
(* and passes from n to n + 1 holds of every natural.                      *)
LEMMA SetInduction ==
  ASSUME NEW S, 0 \in S, \A n \in Nat : n \in S => n + 1 \in S
  PROVE  Nat \subseteq S
<1> DEFINE T == Nat \ S
           R == OpToRel(<, Nat)
<1> SUFFICES ASSUME T # {} PROVE FALSE
  OBVIOUS
<1>1. PICK x \in T : \A y \in T : ~(<<y, x>> \in R)
  <2>1. IsWellFoundedOn(R, Nat)
    BY NatLessThanWellFounded
  <2>2. T \subseteq Nat
    OBVIOUS
  <2> HIDE DEF T, R
  <2> QED BY <2>1, <2>2, WFMin
<1>2. x \in Nat /\ x # 0
  OBVIOUS
<1>3. x - 1 \in Nat /\ x - 1 < x /\ (x - 1) + 1 = x
  BY <1>2
<1>4. x - 1 \in T => <<x - 1, x>> \in R
  BY <1>2, <1>3 DEF OpToRel
<1> QED BY <1>1, <1>3, <1>4

(* One turn of bisect's loop: what it returns from lo on over `width`      *)
(* blocks, when `below` are the searches over fewer.                       *)
SearchStep(blocks, target, width, below) ==
  [lo \in 0 .. Len(blocks) - width |->
     LET half == width \div 2
         mid  == lo + half
     IN  IF width = 0 THEN lo
         ELSE IF blocks[mid + 1].number < target THEN below[width - half - 1][mid + 1]
         ELSE below[half][lo]]

(* Both halves of an interval that is not empty are narrower.              *)
LEMMA Halves ==
  ASSUME NEW w \in Nat, w # 0
  PROVE  w \div 2 \in 0 .. w - 1 /\ w - (w \div 2) - 1 \in 0 .. w - 1
OBVIOUS

(* The search of bisect exists and is computed turn by turn.               *)
LEMMA SearchUnfolds ==
  ASSUME NEW bs \in Seq(Block), NEW target
  PROVE  \E search : /\ \A w \in 0 .. Len(bs) : search[w] = SearchStep(bs, target, w, search)
                     /\ BisectPos(bs, target) = search[Len(bs)][0] + 1
<1> DEFINE N == Len(bs)
           Is(f, n) == f = [w \in 0 .. n |-> SearchStep(bs, target, w, f)]
           Good == {n \in Nat : \E f : Is(f, n)}
<1>0. N \in Nat
  OBVIOUS
<1>1. ASSUME NEW w \in Nat, NEW f, NEW g, \A v \in 0 .. w - 1 : f[v] = g[v]
      PROVE  SearchStep(bs, target, w, f) = SearchStep(bs, target, w, g)
  <2>1. CASE w = 0
    BY <2>1 DEF SearchStep
  <2>2. CASE w # 0
    <3>1. f[w \div 2] = g[w \div 2] /\ f[w - (w \div 2) - 1] = g[w - (w \div 2) - 1]
      BY <1>1, <2>2, Halves
    <3> QED BY <3>1 DEF SearchStep
  <2> QED BY <2>1, <2>2
<1>2. 0 \in Good
  <2> DEFINE f == [w \in 0 .. 0 |-> SearchStep(bs, target, w, << >>)]
  <2>1. \A w \in 0 .. 0 : SearchStep(bs, target, w, << >>) = SearchStep(bs, target, w, f)
    <3> TAKE w \in 0 .. 0
    <3>1. w \in Nat /\ \A v \in 0 .. w - 1 : << >>[v] = f[v]
      OBVIOUS
    <3> HIDE DEF f
    <3> QED BY <1>1, <3>1
  <2>2. Is(f, 0)
    BY <2>1
  <2> QED BY <2>2
<1>3. ASSUME NEW n \in Nat, n \in Good PROVE n + 1 \in Good
  <2>1. PICK f : Is(f, n)
    BY <1>3
  <2> DEFINE g == [w \in 0 .. n + 1 |-> SearchStep(bs, target, w, f)]
  <2>2. \A w \in 0 .. n : f[w] = SearchStep(bs, target, w, f)
    BY <2>1
  <2>3. \A w \in 0 .. n : g[w] = f[w]
    BY <2>2
  <2>4. ASSUME NEW w \in 0 .. n + 1
        PROVE  SearchStep(bs, target, w, f) = SearchStep(bs, target, w, g)
    <3>1. w \in Nat /\ \A v \in 0 .. w - 1 : f[v] = g[v]
      BY <2>3
    <3> HIDE DEF g
    <3> QED BY <1>1, <3>1
  <2>5. Is(g, n + 1)
    <3> DEFINE h == [w \in 0 .. n + 1 |-> SearchStep(bs, target, w, g)]
    <3>1. g = h
      BY <2>4
    <3> QED BY <3>1
  <2>6. n + 1 \in Nat
    OBVIOUS
  <2> HIDE DEF Is, g
  <2> QED BY <2>5, <2>6
<1>4. \E f : Is(f, N)
  <2>1. N \in Good
    <3> HIDE DEF Good, N
    <3> QED BY <1>0, <1>2, <1>3, SetInduction
  <2> QED BY <2>1
<1> DEFINE search == CHOOSE f : Is(f, N)
<1>5. Is(search, N)
  BY <1>4
<1>6. BisectPos(bs, target) = search[N][0] + 1
  BY DEF BisectPos, SearchStep
<1> HIDE DEF search
<1>7. \A w \in 0 .. N : search[w] = SearchStep(bs, target, w, search)
  BY <1>5
<1> QED BY <1>6, <1>7

(* bisect, for every linked buffer and every target: the halving search    *)
(* ends at the first position whose number is not below the target, or one *)
(* past the end when there is none.                                        *)
THEOREM BisectFinds ==
  ASSUME NEW bs \in Seq(Block), Linked(bs), NEW target \in Nat
  PROVE  /\ BisectPos(bs, target) \in 1 .. Len(bs) + 1
         /\ \A i \in 1 .. BisectPos(bs, target) - 1 : bs[i].number < target
         /\ \A i \in BisectPos(bs, target) .. Len(bs) : bs[i].number >= target
<1> DEFINE N == Len(bs)
           Split(p) == /\ \A i \in 1 .. p : bs[i].number < target
                       /\ \A i \in p + 1 .. N : bs[i].number >= target
           Around(lo, w) == /\ \A i \in 1 .. lo : bs[i].number < target
                            /\ \A i \in lo + w + 1 .. N : bs[i].number >= target
<1>1. PICK search : /\ \A w \in 0 .. N : search[w] = SearchStep(bs, target, w, search)
                    /\ BisectPos(bs, target) = search[N][0] + 1
  BY SearchUnfolds
<1> DEFINE Ends(w) == w <= N => \A lo \in 0 .. N - w :
                        Around(lo, w) => search[w][lo] \in 0 .. N /\ Split(search[w][lo])
           Good == {n \in Nat : \A w \in 0 .. n : Ends(w)}
<1>2. N \in Nat /\ (\A i \in 1 .. N : bs[i] \in Block /\ bs[i].number \in Nat)
      /\ \A i, j \in 1 .. N : i < j => bs[i].number < bs[j].number
  <2>1. N \in Nat /\ DOMAIN bs = 1 .. N /\ \A i \in 1 .. N : bs[i] \in Block
    OBVIOUS
  <2>2. \A i \in 1 .. N : bs[i].number \in Nat
    BY <2>1 DEF Block
  <2> QED BY <2>1, <2>2 DEF Linked
<1>3. \A w \in 0 .. N : \A lo \in 0 .. N - w :
        search[w][lo] = IF w = 0 THEN lo
                        ELSE IF bs[lo + (w \div 2) + 1].number < target
                          THEN search[w - (w \div 2) - 1][lo + (w \div 2) + 1]
                        ELSE search[w \div 2][lo]
  BY <1>1 DEF SearchStep
<1>4. Ends(0)
  <2> SUFFICES ASSUME NEW lo \in 0 .. N, Around(lo, 0)
               PROVE  search[0][lo] \in 0 .. N /\ Split(search[0][lo])
    BY <1>2
  <2>1. search[0][lo] = lo
    <3>1. 0 \in 0 .. N /\ lo \in 0 .. N - 0
      BY <1>2
    <3> QED BY <3>1, <1>3
  <2>2. lo + 0 + 1 = lo + 1
    BY <1>2
  <2> QED BY <2>1, <2>2
<1>5. 0 \in Good
  BY <1>4
<1>6. ASSUME NEW n \in Nat, n \in Good PROVE n + 1 \in Good
  <2> DEFINE w == n + 1
             half == w \div 2
  <2>1. w \in Nat /\ w # 0 /\ half \in 0 .. n /\ w - half - 1 \in 0 .. n
    BY Halves
  <2>2. Ends(half) /\ Ends(w - half - 1)
    BY <1>6, <2>1
  <2> SUFFICES ASSUME w <= N, NEW lo \in 0 .. N - w, Around(lo, w)
               PROVE  search[w][lo] \in 0 .. N /\ Split(search[w][lo])
    <3>1. Ends(w) => n + 1 \in Good
      <4>1. \A v \in 0 .. n + 1 : v \in 0 .. n \/ v = n + 1
        OBVIOUS
      <4>2. \A v \in 0 .. n : Ends(v)
        BY <1>6
      <4> HIDE DEF Ends
      <4> QED BY <4>1, <4>2
    <3> HIDE DEF Good
    <3> QED BY <3>1
  <2> DEFINE mid == lo + half
  <2> HIDE DEF w, half
  <2>3. mid \in Nat /\ lo <= mid /\ mid < lo + w /\ mid + 1 \in 1 .. N /\ lo \in Nat /\ half \in Nat
    BY <1>2, <2>1
  <2>4. w \in 0 .. N /\ half <= N /\ w - half - 1 <= N
    BY <1>2, <2>1
  <2>5. search[w][lo] = IF bs[mid + 1].number < target THEN search[w - half - 1][mid + 1]
                        ELSE search[half][lo]
    BY <1>3, <2>1, <2>4 DEF half
  <2>6. CASE bs[mid + 1].number < target
    <3>1. mid + 1 \in 0 .. N - (w - half - 1)
      BY <1>2, <2>1, <2>3
    <3>2. \A i \in 1 .. mid + 1 : bs[i].number < target
      <4> TAKE i \in 1 .. mid + 1
      <4>1. i \in 1 .. N /\ (i < mid + 1 \/ i = mid + 1)
        BY <1>2, <2>3
      <4>2. i < mid + 1 => bs[i].number < bs[mid + 1].number
        BY <4>1, <1>2, <2>3
      <4> QED BY <4>1, <4>2, <1>2, <2>3, <2>6
    <3>3. (mid + 1) + (w - half - 1) + 1 = lo + w + 1
      BY <2>1, <2>3
    <3>4. Around(mid + 1, w - half - 1)
      BY <3>2, <3>3
    <3>5. search[w][lo] = search[w - half - 1][mid + 1]
      BY <2>5, <2>6
    <3> HIDE DEF Around, Split, mid
    <3> QED BY <2>2, <2>4, <3>1, <3>4, <3>5
  <2>7. CASE ~(bs[mid + 1].number < target)
    <3>1. lo \in 0 .. N - half
      BY <1>2, <2>1, <2>3
    <3>2. \A i \in lo + half + 1 .. N : bs[i].number >= target
      <4> TAKE i \in lo + half + 1 .. N
      <4>1. i \in 1 .. N /\ (mid + 1 < i \/ i = mid + 1)
        BY <1>2, <2>3
      <4>2. mid + 1 < i => bs[mid + 1].number < bs[i].number
        BY <4>1, <1>2, <2>3
      <4> QED BY <4>1, <4>2, <1>2, <2>3, <2>7
    <3>3. Around(lo, half)
      BY <3>2
    <3>4. search[w][lo] = search[half][lo]
      BY <2>5, <2>7
    <3> HIDE DEF Around, Split, mid
    <3> QED BY <2>2, <2>4, <3>1, <3>3, <3>4
  <2> QED BY <2>6, <2>7
<1>7. Ends(N)
  <2>1. N \in Good
    <3> HIDE DEF Good, N
    <3> QED BY <1>2, <1>5, <1>6, SetInduction
  <2> QED BY <2>1, <1>2
<1>8. search[N][0] \in 0 .. N /\ Split(search[N][0])
  <2>1. N <= N /\ 0 \in 0 .. N - N /\ Around(0, N)
    BY <1>2
  <2> HIDE DEF Around, Split
  <2> QED BY <2>1, <1>7
<1>9. BisectPos(bs, target) \in 1 .. N + 1 /\ BisectPos(bs, target) - 1 = search[N][0]
      /\ BisectPos(bs, target) = search[N][0] + 1
  BY <1>1, <1>2, <1>8
<1> QED BY <1>8, <1>9
=============================================================================
