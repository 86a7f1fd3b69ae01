----------------------------- MODULE ApplyBatch -----------------------------
(***************************************************************************)
(* What the writer does with one input batch while it holds the chain's    *)
(* write lock (service.rs: validate_ingest_batch, apply_batch_locked and   *)
(* the locked part of ingest_session).  A batch is                         *)
(*                                                                         *)
(*   [blocks, finalized_head]                                              *)
(*                                                                         *)
(* whose finality report is NoRef when the source attached none.           *)
(***************************************************************************)
EXTENDS ForkBase, SequencesExt

CONSTANT
  BadHash    \* hashes that are empty or cannot stand in an HTTP header

BlockBatch == [blocks : Seq(Block), finalized_head : BlockRef \cup {NoRef}]

(* validate_ingest_batch: everything decidable without the chain.          *)
ValidBatch(batch) ==
  /\ batch.blocks # << >>
  /\ \A i \in DOMAIN batch.blocks :
       batch.blocks[i].hash \notin BadHash /\ batch.blocks[i].parent_hash \notin BadHash
  /\ batch.finalized_head # NoRef => batch.finalized_head.hash \notin BadHash
  /\ \A i \in 1 .. Len(batch.blocks) - 1 :
       /\ batch.blocks[i].number < batch.blocks[i + 1].number
       /\ IsChain(batch.blocks[i], batch.blocks[i + 1])

-----------------------------------------------------------------------------
(* apply_batch_locked.  Progress is threaded through its four stages as    *)
(* [ok, chain, finalized_max, inserted].                                   *)

Failed(p) == [p EXCEPT !.ok = FALSE]

(* Two reports at one height cannot both be right (WP-12).                 *)
NoteReport(p, report) ==
  IF /\ report # NoRef /\ p.finalized_max # NoRef
     /\ report.number >= GetFinalizedHead(p.chain).number
     /\ report.number = p.finalized_max.number
     /\ report.hash # p.finalized_max.hash
    THEN Failed(p)
    ELSE p

PushOne(p, b) ==
  IF ~p.ok THEN p
  ELSE IF PushOutcome(p.chain, b) \in PushRejected THEN Failed(p)
  ELSE [p EXCEPT !.chain = Push(p.chain, b),
                 !.inserted = @ \/ PushOutcome(p.chain, b) \in Inserted]

PushAll(p, blocks) == FoldLeft(PushOne, p, blocks)

(* Mutant: an obligation of an earlier batch is never checked again.       *)
SettleObligationNever(p) ==
  IF ~p.ok \/ p.finalized_max = NoRef \/ FinalizeOutcome(p.chain, p.finalized_max) \notin FinalizeAccepted
    THEN p
    ELSE [p EXCEPT !.chain = Finalize(p.chain, p.finalized_max)]

(* settle_obligation against the blocks held now, if there is one.         *)
SettleObligation(p) ==
  IF ~p.ok \/ p.finalized_max = NoRef THEN p
  ELSE IF FinalizeOutcome(p.chain, p.finalized_max) \notin FinalizeAccepted THEN Failed(p)
  ELSE [p EXCEPT !.chain = Finalize(p.chain, p.finalized_max)]

(* A report raises the session's maximum unless finality passed it.        *)
RaisesMaximum(p, report) ==
  /\ p.ok /\ report # NoRef
  /\ report.number >= GetFinalizedHead(p.chain).number
  /\ p.finalized_max = NoRef \/ report.number > p.finalized_max.number

RaiseAndSettle(p, report) ==
  IF RaisesMaximum(p, report)
    THEN SettleObligation([p EXCEPT !.finalized_max = report])
    ELSE p

ApplyBatchLocked(c, finalized_max, batch) ==
  LET start   == [ok |-> TRUE, chain |-> c, finalized_max |-> finalized_max, inserted |-> FALSE]
      noted   == NoteReport(start, batch.finalized_head)
      pushed  == PushAll(noted, batch.blocks)
      settled == SettleObligation(pushed)
  IN  RaiseAndSettle(settled, batch.finalized_head)

(* The batch scope around it: commit and compact, or roll back.            *)
IngestBatch(c, finalized_max, batch) ==
  LET applied == ApplyBatchLocked(BeginBatch(c), finalized_max, batch)
  IN  IF applied.ok
        THEN [applied EXCEPT !.chain = Compact(CommitBatch(applied.chain))]
        ELSE [applied EXCEPT !.chain = RollbackBatch(applied.chain)]
=============================================================================
