------------------------------ MODULE Backfill ------------------------------
(***************************************************************************)
(* A response to a request below the window: below_query of service.rs and *)
(* the body handle_stream and block_stream of http.rs make of it.  A       *)
(* producer task pulls batches from the finalized stream, checks that they *)
(* link and sends them through a channel of two; the response reads them   *)
(* and goes on with the tail, the buffer as it was snapshotted.  The client*)
(* may leave and the response budget may end at any moment.  The finalized *)
(* stream is external: it may yield anything, stall, fail or end early.    *)
(***************************************************************************)
EXTENDS Chain, SequencesExt

CONSTANTS
  NoHash,         \* a request without parentBlockHash
  NoBlock,        \* the None of an Option<Block>
  BaseHashes,     \* parentBlockHash of the request
  Tails,          \* the buffers a snapshot may have met
  SourceBatches,  \* what the finalized stream may yield
  ChannelSize     \* 2 in the code

ASSUME TailsAssumption == \A t \in Tails : t \in Seq(Block) /\ t # << >> /\ Linked(t)
ASSUME SourceBatchesAssumption == SourceBatches \subseteq Seq(Block)
ASSUME NoBlockAssumption == NoBlock \notin Block
ASSUME ChannelAssumption == ChannelSize \in Nat \ {0}

VARIABLES
  base_hash, tail,   \* the request's base and the snapshot it splices onto
  producer,          \* not_started, pulling, sending, ended
  source_open,       \* the producer still owns the source stream
  first_batch,       \* the batch awaited before the verdict, not yet pulled again
  prev,              \* the last block that passed the continuity check
  item,              \* what the producer is sending
  channel,           \* sent and not yet received
  receiver_open,     \* the response still holds the receiving end
  reading,           \* opening, head, tail, ended: what the response reads
  ready,             \* blocks received and not yet written
  body,              \* the records written
  outcome            \* how the request ended

sourceVars == <<source_open, first_batch, prev>>
readerVars == <<reading, ready, body, outcome, receiver_open>>
vars == <<base_hash, tail, producer, sourceVars, item, channel, readerVars>>

BatchItem(blocks) == [ok |-> TRUE, blocks |-> blocks]
ErrorItem == [ok |-> FALSE, blocks |-> << >>]

Init ==
  /\ base_hash \in BaseHashes
  /\ tail \in Tails
  /\ producer = "not_started"
  /\ source_open = TRUE
  /\ first_batch = << >>
  /\ prev = NoBlock
  /\ item = ErrorItem
  /\ channel = << >>
  /\ receiver_open = TRUE
  /\ reading = "opening"
  /\ ready = << >>
  /\ body = << >>
  /\ outcome = "none"

-----------------------------------------------------------------------------
(* Before the verdict: the first batch is awaited eagerly.                 *)

(* The response is over; dropping it drops its end of the channel.         *)
Over(how) ==
  /\ reading' = "ended"
  /\ outcome' = how
  /\ receiver_open' = FALSE
  /\ ready' = << >>
  /\ UNCHANGED body

(* A first answer that is no batch - the stream's end, an error, a fork -  *)
(* and a budget or client that ran out drop the source with the request.   *)
OpeningFails(how) ==
  /\ reading = "opening"
  /\ Over(how)
  /\ producer' = "ended"
  /\ source_open' = FALSE
  /\ UNCHANGED <<base_hash, tail, first_batch, prev, item, channel>>

OpenWithBatch(blocks) ==
  /\ reading = "opening"
  /\ first_batch' = <<blocks>>
  /\ producer' = "pulling"
  /\ reading' = "head"
  /\ UNCHANGED <<base_hash, tail, source_open, prev, item, channel, ready, body, outcome,
                 receiver_open>>

-----------------------------------------------------------------------------
(* The producer.                                                           *)

(* check_chain_continuity.                                                 *)
Continues(p, next) ==
  IF p # NoBlock THEN IsChain(p, next)
  ELSE base_hash # NoHash => next.parent_hash = base_hash

(* Whether every block of a batch continues the one before it.             *)
BatchContinues(blocks) ==
  \A i \in DOMAIN blocks : Continues(IF i = 1 THEN prev ELSE blocks[i - 1], blocks[i])

LastOr(p, blocks) == IF blocks = << >> THEN p ELSE blocks[Len(blocks)]

(* A batch that breaks the chain drops the source at once.                 *)
SourceAfter(blocks) == source_open /\ BatchContinues(blocks)

Sends(i) == producer' = "sending" /\ item' = i

(* select! is biased: a receiver that is gone is noticed before a batch.   *)
Pulling == producer = "pulling" /\ source_open /\ receiver_open

(* A batch that breaks the chain ends the checks: prev is not read again.  *)
Pull(blocks) ==
  /\ Pulling
  /\ first_batch \in {<< >>, <<blocks>>}
  /\ first_batch' = << >>
  /\ source_open' = SourceAfter(blocks)
  /\ Sends(IF BatchContinues(blocks) THEN BatchItem(blocks) ELSE ErrorItem)
  /\ prev' = IF BatchContinues(blocks) THEN LastOr(prev, blocks) ELSE prev
  /\ UNCHANGED <<base_hash, tail, channel, readerVars>>

SourceFails ==
  /\ Pulling /\ first_batch = << >>
  /\ source_open' = FALSE
  /\ Sends(ErrorItem)
  /\ UNCHANGED <<base_hash, tail, first_batch, prev, channel, readerVars>>

SourceEnds ==
  /\ Pulling /\ first_batch = << >>
  /\ source_open' = FALSE
  /\ UNCHANGED <<base_hash, tail, producer, first_batch, prev, item, channel, readerVars>>

(* Mutant: the producer hears of a closed channel only when it sends.      *)
ReapUnheard == FALSE /\ UNCHANGED vars

Reap ==
  /\ producer = "pulling" /\ source_open /\ ~receiver_open
  /\ producer' = "ended"
  /\ source_open' = FALSE
  /\ UNCHANGED <<base_hash, tail, first_batch, prev, item, channel, readerVars>>

Deliver ==
  /\ producer = "sending" /\ receiver_open
  /\ Len(channel) < ChannelSize
  /\ channel' = Append(channel, item)
  /\ producer' = IF item.ok THEN "pulling" ELSE "ended"
  /\ UNCHANGED <<base_hash, tail, sourceVars, item, readerVars>>

SendFails ==
  /\ producer = "sending" /\ ~receiver_open
  /\ producer' = "ended"
  /\ source_open' = FALSE
  /\ UNCHANGED <<base_hash, tail, first_batch, prev, item, channel, readerVars>>

(* Mutant: the blocks before the tail are not linked to it.                *)
SpliceUnlinked == prev # NoBlock

(* Mutant: a stream without a block splices onto anything.                 *)
SpliceOfNothing == Continues(prev, tail[1])

SpliceHolds == prev # NoBlock /\ Continues(prev, tail[1])

(* After the source's last batch: the splice holds, or the error is sent.  *)
Splice ==
  /\ producer = "pulling" /\ ~source_open
  /\ IF SpliceHolds THEN producer' = "ended" /\ UNCHANGED item ELSE Sends(ErrorItem)
  /\ UNCHANGED <<base_hash, tail, sourceVars, channel, readerVars>>

-----------------------------------------------------------------------------
(* The response body.                                                      *)

Receive ==
  /\ reading = "head" /\ ready = << >> /\ channel # << >>
  /\ channel' = Tail(channel)
  /\ IF Head(channel).ok
       THEN ready' = Head(channel).blocks /\ UNCHANGED <<reading, body, outcome, receiver_open>>
       ELSE Over(IF body = << >> THEN "internal" ELSE "truncated")
  /\ UNCHANGED <<base_hash, tail, producer, sourceVars, item>>

(* The sender is gone and the channel drained: on to the tail.             *)
HeadDone ==
  /\ reading = "head" /\ ready = << >> /\ channel = << >> /\ producer = "ended"
  /\ reading' = "tail"
  /\ ready' = tail
  /\ UNCHANGED <<base_hash, tail, producer, sourceVars, item, channel, body, outcome,
                 receiver_open>>

Write ==
  /\ reading \in {"head", "tail"} /\ ready # << >>
  /\ body' = Append(body, Head(ready))
  /\ ready' = Tail(ready)
  /\ UNCHANGED <<base_hash, tail, producer, sourceVars, item, channel, reading, outcome,
                 receiver_open>>

Complete ==
  /\ reading = "tail" /\ ready = << >>
  /\ Over("complete")
  /\ UNCHANGED <<base_hash, tail, producer, sourceVars, item, channel>>

(* The budget ends, the client leaves, or a record in hand cannot be       *)
(* encoded: a truncation once the first record is out.  Before that the    *)
(* budget bounds the wait for a record only.                               *)
CutShort(how) ==
  /\ reading \in {"head", "tail"}
  /\ how = "internal" => ready # << >>
  /\ how = "empty" /\ body = << >> => ready = << >>
  /\ Over(IF body = << >> THEN how ELSE "truncated")
  /\ UNCHANGED <<base_hash, tail, producer, sourceVars, item, channel>>

Next ==
  \/ \E how \in {"internal", "conflict", "empty", "disconnected"} : OpeningFails(how)
  \/ \E blocks \in SourceBatches : OpenWithBatch(blocks) \/ Pull(blocks)
  \/ SourceFails \/ SourceEnds \/ Reap \/ Deliver \/ SendFails \/ Splice
  \/ Receive \/ HeadDone \/ Write \/ Complete
  \/ \E how \in {"empty", "disconnected", "internal"} : CutShort(how)

(* The producer task is scheduled; nothing is assumed of the source or of  *)
(* the client.                                                             *)
Spec == Init /\ [][Next]_vars /\ WF_vars(Reap \/ Deliver \/ SendFails \/ Splice)

-----------------------------------------------------------------------------
(* Properties.                                                             *)

(* INV-20: whatever the source does, the records written so far are one    *)
(* chain on the base the client named, across the splice onto the tail.    *)
BodyIsChain ==
  /\ \A i \in 1 .. Len(body) - 1 : IsChain(body[i], body[i + 1])
  /\ body # << >> /\ base_hash # NoHash => body[1].parent_hash = base_hash

(* RP-8/INV-27: a body that ends without a truncation holds the missing    *)
(* blocks, at least one, and then the whole snapshot.                      *)
CompleteIsWhole ==
  outcome = "complete" => IsSuffix(tail, body) /\ Len(body) > Len(tail)

(* LIV-10: when the response ends for any reason the producer ends too and *)
(* drops the source, even if the source never yields again.                *)
ReapedAfterResponse == ~receiver_open ~> (producer = "ended" /\ ~source_open)
=============================================================================
