----------------------------- MODULE Ingestion -----------------------------
(***************************************************************************)
(* The ingestion task of service.rs: run, the sessions it opens, the       *)
(* restart ladder, fork rebase and re-seeding.  A batch is applied under   *)
(* the chain's write lock without an await, hence in one step (ApplyBatch);*)
(* what the stream yields next is the data source's choice.  The source is *)
(* external and may say anything at all.                                   *)
(***************************************************************************)
EXTENDS ApplyBatch

CONSTANTS
  FreeRetries,  \* stalled sessions restarted without a pause: 1 in the code
  StallLimit,   \* stalled sessions after which the buffer is re-seeded: 5
  Seeds,        \* blocks the first init may have installed
  Batches,      \* batches a stream may yield
  ForkSignals,  \* the previous_blocks a fork error may carry
  SeedRefs,     \* answers to get_finalized_head; NoRef is a failed call
  SeedBatches   \* first batches of the seed stream

ASSUME LadderAssumption == FreeRetries \in Nat /\ StallLimit \in Nat /\ FreeRetries <= StallLimit
ASSUME IngestionSeedsAssumption == Seeds \subseteq {b \in Block : b.parent_number <= b.number}
ASSUME BatchesAssumption == Batches \subseteq BlockBatch
ASSUME ForkSignalsAssumption == ForkSignals \subseteq Seq(BlockRef)
ASSUME SeedBatchesAssumption ==
  SeedRefs \subseteq BlockRef \cup {NoRef} /\ SeedBatches \subseteq BlockBatch

VARIABLES
  chain,                 \* the shared Chain, as committed
  base,                  \* run's base: the stream is opened one above it
  stacked,               \* consecutive stalled sessions
  first_block_ingested,
  finalized_max,         \* the session's finality obligation, or NoRef
  pc,                    \* where the task is
  session_result,        \* what the session, or the re-init, ended with
  fork_refs,             \* previous_blocks of a fork result
  run_end,               \* the RunEnd returned
  stopped, cancelled,    \* stop() was called; the cancel channel fired
  alarm,                 \* history: what the last step reported to metrics
  opened                 \* history: the head when the session was opened

loopVars == <<base, stacked, first_block_ingested, finalized_max>>
stopVars == <<stopped, cancelled>>
vars == <<chain, loopVars, pc, session_result, fork_refs, run_end, stopVars, alarm, opened>>

(* StackedCap bounds the counter; above StallLimit its value is the same   *)
(* to every comparison of the code.                                        *)
StackedCap == StallLimit + 1

StopRequested == stopped \/ cancelled

Init ==
  /\ \E seed \in Seeds : chain = NewChain(seed)
  /\ base = GetHead(chain)
  /\ stacked = 0
  /\ first_block_ingested = FALSE
  /\ finalized_max = NoRef
  /\ pc = "loop"
  /\ session_result = "none"
  /\ fork_refs = << >>
  /\ run_end = "none"
  /\ stopped = FALSE
  /\ cancelled = FALSE
  /\ alarm = "none"
  /\ opened = GetHead(chain)

-----------------------------------------------------------------------------
(* The top of the loop.                                                    *)

EndRun(how) ==
  /\ pc' = "ended"
  /\ run_end' = how
  /\ session_result' = "none"
  /\ fork_refs' = << >>

(* run checks for a stop at the top of the loop and after each session.    *)
Halt ==
  /\ pc \in {"loop", "resolve"}
  /\ StopRequested
  /\ EndRun("Stopped")
  /\ alarm' = "none"
  /\ UNCHANGED <<chain, loopVars, stopVars, opened>>

OpenSession ==
  /\ pc = "loop"
  /\ ~StopRequested
  /\ stacked <= StallLimit
  /\ pc' = "session"
  /\ opened' = GetHead(chain)
  /\ alarm' = "none"
  /\ UNCHANGED <<chain, loopVars, session_result, fork_refs, run_end, stopVars>>

BeginReseed ==
  /\ pc = "loop"
  /\ ~StopRequested
  /\ stacked > StallLimit
  /\ pc' = "reinit"
  /\ finalized_max' = NoRef
  /\ opened' = GetHead(chain)
  /\ alarm' = "none"
  /\ UNCHANGED <<chain, base, stacked, first_block_ingested, session_result, fork_refs, run_end,
                 stopVars>>

-----------------------------------------------------------------------------
(* init over a buffer that exists.  The head and the block come from two   *)
(* calls, which different nodes of a fleet may answer.                     *)

SeedDelivered(head, batch) ==
  /\ head # NoRef /\ head.hash \notin BadHash
  /\ Len(batch.blocks) = 1 /\ ValidBatch(batch)
  /\ batch.blocks[1].parent_number <= batch.blocks[1].number
  /\ Ref(batch.blocks[1]) = head

ReseedAlarm(c, seed) ==
  IF seed.number < GetFinalizedHead(c).number THEN "watermark_regression" ELSE "none"

(* A replaced buffer goes straight on to a session above its one block.    *)
Reseeded(seed) ==
  /\ ~Contradicts(chain, seed)
  /\ chain' = NewChain(seed)
  /\ base' = Ref(seed)
  /\ opened' = Ref(seed)
  /\ alarm' = ReseedAlarm(chain, seed)
  /\ pc' = "session"
  /\ UNCHANGED <<session_result, fork_refs, run_end>>

DivergentReseed(seed) ==
  /\ Contradicts(chain, seed)
  /\ EndRun("Terminal")
  /\ alarm' = "terminal"
  /\ UNCHANGED <<chain, base, opened>>

Reseed(head, batch) ==
  /\ pc = "reinit"
  /\ SeedDelivered(head, batch)
  /\ Reseeded(batch.blocks[1]) \/ DivergentReseed(batch.blocks[1])
  /\ UNCHANGED <<stacked, first_block_ingested, finalized_max, stopVars>>

ReseedFails(head, batch) ==
  /\ pc = "reinit"
  /\ ~SeedDelivered(head, batch)
  /\ pc' = "resolve"
  /\ session_result' = "error"
  /\ alarm' = "none"
  /\ UNCHANGED <<chain, loopVars, fork_refs, run_end, stopVars, opened>>

-----------------------------------------------------------------------------
(* One session.  The select is biased: once cancelled nothing more is taken*)
(* from the stream.                                                        *)

SessionEnds(how, refs) ==
  /\ pc' = "resolve"
  /\ session_result' = how
  /\ fork_refs' = refs

Streaming == pc = "session" /\ ~cancelled

Deliver(batch) ==
  LET applied == IngestBatch(chain, finalized_max, batch)
  IN  /\ Streaming /\ ~stopped
      /\ ValidBatch(batch)
      /\ chain' = applied.chain
      /\ finalized_max' = applied.finalized_max
      /\ IF applied.ok
           THEN /\ first_block_ingested' = (first_block_ingested \/ applied.inserted)
                /\ alarm' = "none"
                /\ UNCHANGED <<pc, session_result, fork_refs>>
           ELSE /\ SessionEnds("error", << >>)
                /\ alarm' = "integrity_violation"
                /\ UNCHANGED first_block_ingested
      /\ UNCHANGED <<base, stacked, run_end, stopVars, opened>>

(* A stream error, a malformed batch, a fork signal without refs, the end  *)
(* of the stream, or a batch that finds the task stopped.                  *)
SessionOver(how) ==
  /\ SessionEnds(how, << >>)
  /\ alarm' = "none"
  /\ UNCHANGED <<chain, loopVars, run_end, stopVars, opened>>

DeliverMalformed(batch) == Streaming /\ ~stopped /\ ~ValidBatch(batch) /\ SessionOver("error")

StreamFails == Streaming /\ SessionOver("error")

StreamEnds == Streaming /\ SessionOver("ok")

DeliverStopped == Streaming /\ stopped /\ SessionOver("ok")

(* Mutant: a cancelled session waits for a batch to notice.                *)
CancelUnheard == pc = "session" /\ cancelled /\ stopped /\ SessionOver("ok")

CancelSession == pc = "session" /\ cancelled /\ SessionOver("ok")

SignalFork(refs) ==
  /\ Streaming
  /\ SessionEnds(IF refs = << >> THEN "error" ELSE "fork", refs)
  /\ alarm' = "none"
  /\ UNCHANGED <<chain, loopVars, run_end, stopVars, opened>>

-----------------------------------------------------------------------------
(* What run makes of a session's result.                                   *)

Resolving(results) == pc = "resolve" /\ ~StopRequested /\ session_result \in results

StartupFails ==
  /\ Resolving({"ok", "error"})
  /\ ~first_block_ingested
  /\ finalized_max' = NoRef
  /\ EndRun("StartupFailure")
  /\ alarm' = "none"
  /\ UNCHANGED <<chain, base, stacked, first_block_ingested, stopVars, opened>>

(* Mutant: the count stops at the limit it has to exceed.                  *)
CountStallCapped(count, head, from) ==
  IF head.number # from.number THEN 0
  ELSE IF count < StallLimit THEN count + 1 ELSE count

(* A session is stalled when the head is at the height it was opened above.*)
CountStall(count, head, from) ==
  IF head.number # from.number THEN 0
  ELSE IF count < StackedCap THEN count + 1 ELSE count

(* The obligation survives a fork rebase and no other end of a session.    *)
NextObligation(result, max) == IF result = "fork" THEN max ELSE NoRef

RestartSession ==
  LET head == GetHead(chain)
  IN  /\ Resolving({"ok", "error"})
      /\ first_block_ingested
      /\ finalized_max' = NextObligation(session_result, finalized_max)
      /\ stacked' = CountStall(stacked, head, base)
      /\ base' = head
      /\ pc' = IF stacked' > FreeRetries THEN "pause" ELSE "loop"
      /\ session_result' = "none"
      /\ alarm' = "none"
      /\ UNCHANGED <<chain, first_block_ingested, fork_refs, run_end, stopVars, opened>>

PauseOver ==
  /\ pc = "pause"
  /\ pc' = "loop"
  /\ alarm' = "none"
  /\ UNCHANGED <<chain, loopVars, session_result, fork_refs, run_end, stopVars, opened>>

Rebase ==
  LET target == GetForkBase(chain, fork_refs)
  IN  /\ Resolving({"fork"})
      /\ target # NoRef
      /\ finalized_max' = NextObligation(session_result, finalized_max)
      /\ stacked' = 0
      /\ base' = target
      /\ pc' = "loop"
      /\ session_result' = "none"
      /\ fork_refs' = << >>
      /\ alarm' = "fork_rebase"
      /\ UNCHANGED <<chain, first_block_ingested, run_end, stopVars, opened>>

DivergentFork ==
  /\ Resolving({"fork"})
  /\ GetForkBase(chain, fork_refs) = NoRef
  /\ stacked' = 0
  /\ EndRun("Terminal")
  /\ alarm' = "terminal"
  /\ UNCHANGED <<chain, base, first_block_ingested, finalized_max, stopVars, opened>>

-----------------------------------------------------------------------------
(* Stopping.  shutdown fires the cancel channel and then aborts the task,  *)
(* which takes effect only where the task awaits.                          *)

Stop ==
  /\ pc # "ended" /\ ~stopped
  /\ stopped' = TRUE
  /\ alarm' = "none"
  /\ UNCHANGED <<chain, loopVars, pc, session_result, fork_refs, run_end, cancelled, opened>>

Shutdown ==
  /\ pc # "ended" /\ ~cancelled
  /\ cancelled' = TRUE
  /\ alarm' = "none"
  /\ UNCHANGED <<chain, loopVars, pc, session_result, fork_refs, run_end, stopped, opened>>

Abort ==
  /\ pc \in {"session", "reinit", "pause"}
  /\ cancelled
  /\ EndRun("Aborted")
  /\ alarm' = "none"
  /\ UNCHANGED <<chain, loopVars, stopVars, opened>>

Finished == pc = "ended" /\ UNCHANGED vars

Resolve == StartupFails \/ RestartSession \/ Rebase \/ DivergentFork

AnyReseed == \E h \in SeedRefs, b \in SeedBatches : Reseed(h, b) \/ ReseedFails(h, b)

TaskStep ==
  \/ Halt \/ OpenSession \/ BeginReseed
  \/ AnyReseed
  \/ \E b \in Batches : Deliver(b) \/ DeliverMalformed(b)
  \/ StreamFails \/ StreamEnds \/ DeliverStopped \/ CancelSession
  \/ \E refs \in ForkSignals : SignalFork(refs)
  \/ Resolve \/ PauseOver
  \/ Stop \/ Abort

Next == TaskStep \/ Shutdown \/ Finished

Spec == Init /\ [][Next]_vars
-----------------------------------------------------------------------------
(* Properties.                                                             *)

Abstract == INSTANCE PublishedChain WITH
              blocks <- chain.blocks, finalized <- chain.finalized_head

(* Sessions, rebases, re-seeds and rejected batches together never show a  *)
(* reader anything but the chains PublishedChain promises (INV-1..4, 11,   *)
(* 12, 14): what push, finalize, compact and rollback keep one by one also *)
(* survives the order apply_batch_locked calls them in.                    *)
ImplementsPublished == Abstract!Spec

(* WP-12/WP-23: a finality obligation a live session has accepted is never *)
(* forgotten or contradicted.  Either it is above the head and the whole   *)
(* buffer is finalized meanwhile, or finality has reached it and the block *)
(* buffered at its height, if any, is the one it names.  Holds across fork *)
(* rebases, reorgs and force-advances of the finalized head.               *)
ObligationHonoured ==
  finalized_max # NoRef /\ (pc \in {"loop", "session"} \/ session_result = "fork") =>
    \/ /\ finalized_max.number > GetHead(chain).number
       /\ chain.finalized_head = Len(chain.blocks)
    \/ /\ finalized_max.number <= GetFinalizedHead(chain).number
       /\ \A i \in DOMAIN chain.blocks :
            chain.blocks[i].number = finalized_max.number => Ref(chain.blocks[i]) = finalized_max

(* WP-10: the two-pointer walk of get_fork_base finds the target the rule  *)
(* defines, or its absence, for every buffer and ascending signal.         *)
ForkBaseIsTarget ==
  session_result = "fork" /\ AscendingRefs(fork_refs) =>
    GetForkBase(chain, fork_refs) = RebaseTarget(chain, fork_refs)

(* WP-9 as spec/04-mutations.md words it: a session during which the head  *)
(* did not move counts as stalled.                                         *)
UnmovedHeadCounts ==
  [][pc = "resolve" /\ session_result # "fork" /\ pc' \in {"loop", "pause"} /\ GetHead(chain) = opened
       => stacked' > stacked \/ stacked' = StackedCap]_vars
=============================================================================
