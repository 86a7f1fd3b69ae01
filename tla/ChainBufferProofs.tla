------------------------- MODULE ChainBufferProofs -------------------------
(***************************************************************************)
(* The chain buffer is correct for every block tree, every sequence of     *)
(* batches and reports, every window size and both finality settings.      *)
(***************************************************************************)
EXTENDS ChainBuffer, ChainLemmas

(* Every behaviour keeps the inductive invariant.                          *)
THEOREM BatchInvariantHolds == Spec => []BatchInvariant
<1>1. Init => BatchInvariant
  <2> SUFFICES ASSUME Init PROVE BatchInvariant
    OBVIOUS
  <2>1. PICK seed \in Seeds : chain = NewChain(seed)
    BY DEF Init
  <2>2. WellFormedChain(chain) /\ chain.undo = NoUndo
        /\ WithinWindow(chain.blocks, chain.finalized_head)
    BY <2>1, SeedsAssumption, NewChainCommitted
  <2>3. chain.finalized_head \in Nat
    BY <2>2, ChainFields DEF WellFormedChain
  <2> QED BY <2>2, <2>3 DEF Init, BatchInvariant, Phases
<1>2. BatchInvariant /\ [Next]_vars => BatchInvariant'
  <2> SUFFICES ASSUME BatchInvariant, [Next]_vars PROVE BatchInvariant'
    OBVIOUS
  <2>0. /\ chain \in ChainState /\ before \in ChainState
        /\ Len(chain.blocks) \in Nat /\ Len(before.blocks) \in Nat
        /\ chain.finalized_head \in Nat /\ before.finalized_head \in Nat
        /\ chain.finalized_head \in 1 .. Len(chain.blocks)
        /\ before.finalized_head \in 1 .. Len(before.blocks)
        /\ chain.finalized_head >= before.finalized_head
    BY ChainFields DEF BatchInvariant, WellFormedChain
  <2>1. CASE Begin
    <3>1. /\ chain' = BeginBatch(chain) /\ phase' = "pushing" /\ before' = chain
          /\ chain = before
      BY <2>1 DEF Begin, BatchInvariant
    <3>2. /\ chain'.blocks = chain.blocks /\ chain'.finalized_head = chain.finalized_head
          /\ chain'.undo.open = TRUE /\ chain'.undo.intact = Len(chain.blocks)
          /\ chain'.undo.removed = << >> /\ chain'.undo.finalized_head = chain.finalized_head
          /\ chain' \in ChainState
      BY <2>0, <3>1, BatchScope
    <3>3. WellFormedChain(chain')
      BY <2>0, <3>2 DEF BatchInvariant, WellFormedChain
    <3>4. SubSeq(chain.blocks, 1, Len(chain.blocks)) \o << >> = chain.blocks
      <4>1. chain.blocks \in Seq(Block)
        BY <2>0, ChainFields
      <4>2. SubSeq(chain.blocks, 1, Len(chain.blocks)) = chain.blocks
        BY <4>1
      <4> QED BY <4>1, <4>2
    <3>5. UndoLeadsTo(chain', before'.blocks, before'.finalized_head)
      BY <2>0, <3>1, <3>2, <3>4 DEF UndoLeadsTo
    <3> QED BY <2>0, <3>1, <3>2, <3>3, <3>5 DEF BatchInvariant, Phases
  <2>2. ASSUME NEW b \in Deliverable, PushBlock(b) PROVE BatchInvariant'
    <3>1. /\ chain' = Push(chain, b) /\ before' = before /\ phase = "pushing"
          /\ phase' \in {"pushing", "failed"}
      BY <2>2 DEF PushBlock
    <3>2. b \in Block /\ WellFormedChain(chain)
      BY DeliverableAssumption DEF BatchInvariant
    <3>3. /\ WellFormedChain(chain') /\ chain'.finalized_head = chain.finalized_head
          /\ \A i \in 1 .. chain.finalized_head : chain'.blocks[i] = chain.blocks[i]
      BY <3>1, <3>2, PushKeeps
    <3>4. before.finalized_head \in 1 .. chain.finalized_head
      BY <2>0
    <3>5. UndoLeadsTo(chain, before.blocks, before.finalized_head)
      BY <3>1 DEF BatchInvariant
    <3>6. UndoLeadsTo(chain', before.blocks, before.finalized_head)
      BY <3>1, <3>2, <3>4, <3>5, PushKeeps
    <3>7. \A i \in 1 .. before.finalized_head : chain'.blocks[i] = before.blocks[i]
      BY <2>0, <3>3 DEF BatchInvariant
    <3> QED BY <2>0, <3>1, <3>3, <3>6, <3>7 DEF BatchInvariant, Phases
  <2>3. ASSUME NEW r \in Reports, SettleReport(r) PROVE BatchInvariant'
    <3>1. /\ chain' = Finalize(chain, r) /\ before' = before
          /\ phase \in {"pushing", "settling"} /\ phase' \in {"settling", "failed"}
      BY <2>3 DEF SettleReport
    <3>2. r \in BlockRef /\ WellFormedChain(chain)
      BY ReportsAssumption DEF BatchInvariant
    <3>3. /\ WellFormedChain(chain') /\ chain'.blocks = chain.blocks
          /\ chain'.undo = chain.undo /\ chain'.finalized_head >= chain.finalized_head
      BY <3>1, <3>2, FinalizeKeeps
    <3>4. chain'.finalized_head \in Nat
      BY <3>3, ChainFields DEF WellFormedChain
    <3>5. UndoLeadsTo(chain', before.blocks, before.finalized_head)
      BY <3>1, <3>3 DEF BatchInvariant, UndoLeadsTo
    <3> QED BY <2>0, <3>1, <3>3, <3>4, <3>5 DEF BatchInvariant, Phases
  <2>4. CASE Commit
    <3>1. chain' = CommitBatch(chain) /\ before' = before /\ phase' = "committed"
      BY <2>4 DEF Commit
    <3>2. /\ chain'.blocks = chain.blocks /\ chain'.finalized_head = chain.finalized_head
          /\ chain'.undo = NoUndo /\ chain' \in ChainState
      BY <2>0, <3>1, BatchScope
    <3>3. WellFormedChain(chain')
      BY <3>2 DEF BatchInvariant, WellFormedChain, NoUndo
    <3> QED BY <2>0, <3>1, <3>2, <3>3 DEF BatchInvariant, Phases
  <2>5. CASE Compaction
    <3>1. chain' = Compact(chain) /\ before' = chain' /\ phase' = "idle"
      BY <2>5 DEF Compaction
    <3>2. chain.undo = NoUndo /\ WellFormedChain(chain) /\ ~chain.undo.open
      BY <2>5 DEF Compaction, BatchInvariant, NoUndo
    <3>3. /\ WellFormedChain(chain') /\ chain'.undo = NoUndo
          /\ WithinWindow(chain'.blocks, chain'.finalized_head)
      BY <3>1, <3>2, CompactKeeps
    <3>4. chain'.finalized_head \in Nat
      BY <3>3, ChainFields DEF WellFormedChain
    <3> QED BY <3>1, <3>3, <3>4 DEF BatchInvariant, Phases
  <2>6. CASE Rollback
    <3>1. chain' = RollbackBatch(chain) /\ before' = chain' /\ phase' = "idle"
      BY <2>6 DEF Rollback
    <3>2. UndoLeadsTo(chain, before.blocks, before.finalized_head)
      BY <2>6 DEF Rollback, BatchInvariant
    <3>3. /\ chain' \in ChainState /\ chain'.blocks = before.blocks
          /\ chain'.finalized_head = before.finalized_head /\ chain'.undo = NoUndo
      <4>1. before.blocks \in Seq(Block)
        BY <2>0, ChainFields
      <4> QED BY <2>0, <3>1, <3>2, <4>1, BatchScope
    <3>4. WellFormedChain(chain')
      BY <3>3 DEF BatchInvariant, WellFormedChain, NoUndo
    <3> QED BY <2>0, <3>1, <3>3, <3>4 DEF BatchInvariant, Phases
  <2>7. ASSUME NEW s \in Seeds, Reseed(s) PROVE BatchInvariant'
    <3>1. chain' = NewChain(s) /\ before' = chain' /\ phase' = "idle"
      BY <2>7 DEF Reseed
    <3>2. /\ WellFormedChain(chain') /\ chain'.undo = NoUndo
          /\ WithinWindow(chain'.blocks, chain'.finalized_head)
      BY <3>1, SeedsAssumption, NewChainCommitted
    <3>3. chain'.finalized_head \in Nat
      BY <3>2, ChainFields DEF WellFormedChain
    <3> QED BY <3>1, <3>2, <3>3 DEF BatchInvariant, Phases
  <2>8. CASE UNCHANGED vars
    BY <2>8 DEF vars, BatchInvariant
  <2> QED BY <2>1, <2>2, <2>3, <2>4, <2>5, <2>6, <2>7, <2>8 DEF Next
<1> QED BY <1>1, <1>2, PTL DEF Spec

(* The buffer is well typed, never empty and has a valid finalized head.   *)
THEOREM TypeCorrect == Spec => []TypeOK
<1>1. BatchInvariant => TypeOK
  BY DEF BatchInvariant, TypeOK, WellFormedChain
<1> QED BY <1>1, BatchInvariantHolds, PTL

(* INV-2: the buffer is ascending and linked at every step of the writer.  *)
THEOREM ShapeKept == Spec => []ChainShape
<1>1. BatchInvariant => ChainShape
  BY DEF BatchInvariant, ChainShape, WellFormedChain
<1> QED BY <1>1, BatchInvariantHolds, PTL

(* WP-5: the undo log spells out the buffer the batch began with.          *)
THEOREM UndoComplete == Spec => []UndoLogComplete
<1>1. BatchInvariant => UndoLogComplete
  <2> SUFFICES ASSUME BatchInvariant, chain.undo.open PROVE UndoLogComplete
    BY DEF UndoLogComplete
  <2>1. phase \notin {"idle", "committed"}
    BY DEF BatchInvariant, NoUndo
  <2>2. UndoLeadsTo(chain, before.blocks, before.finalized_head)
    BY <2>1 DEF BatchInvariant, Phases
  <2>3. before.finalized_head \in Nat /\ Len(chain.blocks) \in Nat
    BY ChainFields DEF BatchInvariant, WellFormedChain
  <2> QED BY <2>2, <2>3 DEF UndoLogComplete, UndoLeadsTo
<1> QED BY <1>1, BatchInvariantHolds, PTL

(* INV-11: what was finalized when a batch began is untouched by it.       *)
THEOREM FinalizedKept == Spec => []FinalizedPrefixKept
<1>1. BatchInvariant => FinalizedPrefixKept
  BY DEF BatchInvariant, FinalizedPrefixKept
<1> QED BY <1>1, BatchInvariantHolds, PTL

(* INV-4: the window bound holds in every committed state.                 *)
THEOREM WindowKept == Spec => []WindowBounded
<1>1. BatchInvariant => WindowBounded
  BY DEF BatchInvariant, WindowBounded
<1> QED BY <1>1, BatchInvariantHolds, PTL

(* The rollback of a failed batch restores the committed chain exactly.    *)
LEMMA RollbackExact ==
  ASSUME BatchInvariant, Rollback
  PROVE  chain' = before
<1>1. chain \in ChainState /\ before \in ChainState /\ before.undo = NoUndo
  BY DEF BatchInvariant, WellFormedChain
<1>2. before.blocks \in Seq(Block) /\ before.finalized_head \in Nat
  BY <1>1, ChainFields
<1>3. UndoLeadsTo(chain, before.blocks, before.finalized_head)
  BY DEF Rollback, BatchInvariant
<1>4. chain' = RollbackBatch(chain)
  BY DEF Rollback
<1>5. /\ chain' \in ChainState /\ chain'.blocks = before.blocks
      /\ chain'.finalized_head = before.finalized_head /\ chain'.undo = NoUndo
  BY <1>1, <1>2, <1>3, <1>4, BatchScope
<1> QED BY <1>1, <1>5, SameChain

(* WP-5: a batch that failed leaves no trace.                              *)
THEOREM RollbackTraceless == Spec => RollbackRestores
<1>1. BatchInvariant /\ [Next]_vars =>
        [phase = "failed" => phase' = "failed" \/ chain' = before]_vars
  <2> SUFFICES ASSUME BatchInvariant, Next, phase = "failed"
               PROVE  chain' = before
    OBVIOUS
  <2>1. Rollback
    BY DEF Next, Begin, PushBlock, SettleReport, Commit, Compaction, Reseed
  <2> QED BY <2>1, RollbackExact
<1> QED BY <1>1, BatchInvariantHolds, PTL DEF Spec, RollbackRestores

(* The buffer implements PublishedChain: what readers see changes only by  *)
(* a publication that keeps finality, or by a re-seed that contradicts     *)
(* nothing.                                                                *)
THEOREM PublishedRefinement == Spec => ImplementsPublished
<1>1. Init => Abstract!Init
  <2> SUFFICES ASSUME Init PROVE Abstract!Init
    OBVIOUS
  <2>1. PICK seed \in Seeds : chain = NewChain(seed)
    BY DEF Init
  <2>2. Len(chain.blocks) = 1 /\ chain.finalized_head = 1
    BY <2>1, SeedsAssumption, NewChainCommitted
  <2> QED BY <2>2 DEF Init, Abstract!Init, Published
<1>2. BatchInvariant /\ BatchInvariant' /\ [Next]_vars => [Abstract!Next]_(Abstract!vars)
  <2> SUFFICES ASSUME BatchInvariant, BatchInvariant', [Next]_vars
               PROVE  [Abstract!Next]_(Abstract!vars)
    OBVIOUS
  <2>0. Published' = Published => UNCHANGED Abstract!vars
    BY DEF Abstract!vars
  <2>1. CASE Begin
    BY <2>0, <2>1 DEF Begin, Published
  <2>2. ASSUME NEW b \in Deliverable, PushBlock(b) PROVE UNCHANGED Abstract!vars
    BY <2>0, <2>2 DEF PushBlock, Published
  <2>3. ASSUME NEW r \in Reports, SettleReport(r) PROVE UNCHANGED Abstract!vars
    BY <2>0, <2>3 DEF SettleReport, Published
  <2>4. CASE Commit
    BY <2>0, <2>4 DEF Commit, Published
  <2>5. CASE Compaction
    <3>1. chain' = Compact(chain) /\ Published = before /\ Published' = chain'
      BY <2>5 DEF Compaction, Published
    <3>2. WellFormedChain(chain) /\ ~chain.undo.open
      BY <2>5 DEF Compaction, BatchInvariant, NoUndo
    <3>3. /\ WellFormedChain(chain')
          /\ WithinWindow(chain'.blocks, chain'.finalized_head)
      BY <3>1, <3>2, CompactKeeps
    <3>4. before.finalized_head \in 1 .. chain.finalized_head
      BY ChainFields DEF BatchInvariant, WellFormedChain
    <3>5. KeepsFinalized(chain.blocks, before.finalized_head, chain'.blocks, chain'.finalized_head)
      BY <3>1, <3>2, <3>4, CompactKeeps
    <3>6. KeepsFinalized(before.blocks, before.finalized_head, chain'.blocks, chain'.finalized_head)
      BY <3>4, <3>5 DEF KeepsFinalized, BatchInvariant
    <3>7. Abstract!WellFormed(chain'.blocks, chain'.finalized_head)
      BY <3>3 DEF Abstract!WellFormed, WellFormedChain, Abstract!Linked, Linked,
                  Abstract!IsChain, IsChain, Abstract!Ref, Ref, Abstract!ParentRef, ParentRef,
                  Abstract!WithinWindow, WithinWindow
    <3>8. Abstract!KeepsFinalized(before.blocks, before.finalized_head,
                                  chain'.blocks, chain'.finalized_head)
      BY <3>6 DEF Abstract!KeepsFinalized, KeepsFinalized
    <3>9. Abstract!Publish
      BY <3>1, <3>7, <3>8 DEF Abstract!Publish
    <3> QED BY <3>9 DEF Abstract!Next
  <2>6. CASE Rollback
    <3>1. chain' = before /\ Published = before /\ Published' = chain'
      BY <2>6, RollbackExact DEF Rollback, Published
    <3> QED BY <2>0, <3>1
  <2>7. ASSUME NEW s \in Seeds, Reseed(s) PROVE Abstract!Next
    <3>1. chain' = NewChain(s) /\ Published = chain /\ Published' = chain'
          /\ ~Contradicts(chain, s)
      BY <2>7 DEF Reseed, Published
    <3>2. Len(chain'.blocks) = 1 /\ chain'.finalized_head = 1 /\ chain'.blocks[1] = s
      BY <3>1, SeedsAssumption, NewChainCommitted
    <3>3. Agrees(chain.blocks, s)
      BY <3>1, SeedsAssumption, SeedAgrees DEF BatchInvariant
    <3>4. Abstract!Reseed
      BY <3>1, <3>2, <3>3 DEF Abstract!Reseed, Abstract!Agrees, Agrees
    <3> QED BY <3>4 DEF Abstract!Next
  <2>8. CASE UNCHANGED vars
    BY <2>0, <2>8 DEF vars, Published
  <2> QED BY <2>1, <2>2, <2>3, <2>4, <2>5, <2>6, <2>7, <2>8 DEF Next
<1> QED BY <1>1, <1>2, BatchInvariantHolds, PTL DEF Spec, ImplementsPublished, Abstract!Spec
=============================================================================
