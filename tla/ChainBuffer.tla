---------------------------- MODULE ChainBuffer ----------------------------
(***************************************************************************)
(* The chain buffer as a state machine: one action per mutating method of  *)
(* chain.rs, called in the order ingest_session and init of service.rs     *)
(* call them while they hold the write lock.  Which blocks and finality    *)
(* reports arrive is the data source's choice and unconstrained.           *)
(***************************************************************************)
EXTENDS Chain

CONSTANTS
  Deliverable,  \* blocks a batch may contain
  Reports,      \* finality reports a batch may carry
  Seeds         \* blocks a (re-)seed may install

ASSUME DeliverableAssumption == Deliverable \subseteq Block
ASSUME ReportsAssumption == Reports \subseteq BlockRef
ASSUME SeedsAssumption == Seeds \subseteq {b \in Block : b.parent_number <= b.number}

VARIABLES
  chain,   \* the Chain value
  phase,   \* how far the writer is with the current batch
  before   \* history: the chain as the last commit, rollback or re-seed left it

vars == <<chain, phase, before>>

(* pushing: begin_batch done, blocks arrive; settling: finality reports;   *)
(* failed: a call returned Err; committed: the undo log is dropped and     *)
(* compaction must follow.                                                 *)
Phases == {"idle", "pushing", "settling", "failed", "committed"}

Init ==
  /\ \E seed \in Seeds : chain = NewChain(seed)
  /\ phase = "idle"
  /\ before = chain

Begin ==
  /\ phase = "idle"
  /\ chain' = BeginBatch(chain)
  /\ phase' = "pushing"
  /\ before' = chain

PushBlock(b) ==
  /\ phase = "pushing"
  /\ chain' = Push(chain, b)
  /\ phase' = IF PushOutcome(chain, b) \in PushAccepted THEN phase ELSE "failed"
  /\ UNCHANGED before

SettleReport(r) ==
  /\ phase \in {"pushing", "settling"}
  /\ chain' = Finalize(chain, r)
  /\ phase' = IF FinalizeOutcome(chain, r) \in FinalizeAccepted THEN "settling" ELSE "failed"
  /\ UNCHANGED before

Commit ==
  /\ phase \in {"pushing", "settling"}
  /\ chain' = CommitBatch(chain)
  /\ phase' = "committed"
  /\ UNCHANGED before

Compaction ==
  /\ phase = "committed"
  /\ chain' = Compact(chain)
  /\ phase' = "idle"
  /\ before' = chain'

(* A rejected report may also end a batch before any call failed.          *)
Rollback ==
  /\ phase \in {"pushing", "failed"}
  /\ chain' = RollbackBatch(chain)
  /\ phase' = "idle"
  /\ before' = chain'

(* init over an existing chain: a seed that contradicts it is refused.     *)
Reseed(seed) ==
  /\ phase = "idle"
  /\ ~Contradicts(chain, seed)
  /\ chain' = NewChain(seed)
  /\ before' = chain'
  /\ UNCHANGED phase

Next ==
  \/ Begin
  \/ \E b \in Deliverable : PushBlock(b)
  \/ \E r \in Reports : SettleReport(r)
  \/ Commit
  \/ Compaction
  \/ Rollback
  \/ \E s \in Seeds : Reseed(s)

Spec == Init /\ [][Next]_vars

-----------------------------------------------------------------------------
(* Properties.                                                             *)

(* Type correctness of the buffer, with INV-1 and INV-3: never empty, and  *)
(* the finalized head is a position of it.                                 *)
TypeOK ==
  /\ chain \in ChainState
  /\ phase \in Phases
  /\ before \in ChainState
  /\ Len(chain.blocks) >= 1
  /\ chain.finalized_head \in 1 .. Len(chain.blocks)

(* INV-2 at every instant the writer holds the lock, not only between      *)
(* batches: push keeps the buffer ascending and linked whatever arrives.   *)
ChainShape == Linked(chain.blocks)

(* WP-5: however many truncations a batch has made, the untouched prefix   *)
(* and the saved originals spell out exactly the buffer it began with.     *)
UndoLogComplete ==
  chain.undo.open =>
    /\ chain.undo.intact <= Len(chain.blocks)
    /\ SubSeq(chain.blocks, 1, chain.undo.intact) \o chain.undo.removed = before.blocks
    /\ chain.undo.finalized_head = before.finalized_head

(* INV-11: the blocks finalized when a batch began are still in place,     *)
(* still finalized, at every point of the batch up to compaction.          *)
FinalizedPrefixKept ==
  phase # "idle" =>
    /\ chain.finalized_head >= before.finalized_head
    /\ \A i \in 1 .. before.finalized_head : chain.blocks[i] = before.blocks[i]

(* WP-5: a rejected batch leaves no trace: rollback restores the committed *)
(* chain, undo log included.                                               *)
RollbackRestores == [][phase = "failed" => phase' = "failed" \/ chain' = before]_vars

(* INV-4, with the window restored by the commit's own compaction.         *)
WindowBounded ==
  phase = "idle" => WithinWindow(chain.blocks, chain.finalized_head)

(* The inductive invariant behind the theorems of ChainBufferProofs.  What *)
(* the properties above leave out: the committed chain is itself in shape, *)
(* the undo log is open exactly while a batch is, and nothing it has saved *)
(* lies at or below the finalized head the batch began with.               *)
BatchInvariant ==
  /\ phase \in Phases
  /\ WellFormedChain(chain)
  /\ WellFormedChain(before)
  /\ before.undo = NoUndo
  /\ WithinWindow(before.blocks, before.finalized_head)
  /\ phase \in {"pushing", "settling", "failed"} =>
       UndoLeadsTo(chain, before.blocks, before.finalized_head)
  /\ phase \in {"idle", "committed"} => chain.undo = NoUndo
  /\ phase = "idle" => chain = before
  /\ chain.finalized_head >= before.finalized_head
  /\ \A i \in 1 .. before.finalized_head : chain.blocks[i] = before.blocks[i]

(* The chain readers see: the write lock hides everything else.            *)
Published == IF phase = "idle" THEN chain ELSE before

Abstract == INSTANCE PublishedChain WITH
              blocks <- Published.blocks, finalized <- Published.finalized_head

(* The buffer implements the promise made to readers.                      *)
ImplementsPublished == Abstract!Spec
=============================================================================
