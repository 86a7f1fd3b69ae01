------------------------------ MODULE Coherence ------------------------------
(***************************************************************************)
(* How the answers of one round are applied to a block of which only the   *)
(* header is sure (fetch.rs, RawRpcBlock of rpc_data.rs).  An answer is    *)
(* the value returned, None for a null, CallError for an error of that     *)
(* call or an entry that does not parse.  A component that cannot be       *)
(* attributed to the block is Incoherent.                                  *)
(***************************************************************************)
EXTENDS Normalization

CONSTANTS CallError, Incoherent

-----------------------------------------------------------------------------
(* RawRpcBlock.                                                            *)

NewRaw(block) ==
  [block |-> block, logs |-> None, receipts |-> None, debug_frames |-> None,
   debug_state_diffs |-> None, trace_replays |-> None,
   is_invalid |-> FALSE, is_not_ready |-> FALSE, header_contested |-> FALSE]

MarkInvalid(raw) ==
  [raw EXCEPT !.is_invalid = TRUE, !.is_not_ready = FALSE, !.header_contested = FALSE]

(* A contradiction is never downgraded to lag.                             *)
MarkNotReady(raw) ==
  IF raw.is_invalid /\ ~raw.is_not_ready THEN raw
  ELSE [raw EXCEPT !.is_invalid = TRUE, !.is_not_ready = TRUE]
MarkHeaderContested(raw) ==
  IF raw.is_invalid /\ ~raw.is_not_ready THEN raw
  ELSE [MarkNotReady(raw) EXCEPT !.header_contested = TRUE]
ClearInvalid(raw) ==
  [raw EXCEPT !.is_invalid = FALSE, !.is_not_ready = FALSE, !.header_contested = FALSE]

-----------------------------------------------------------------------------
(* Logs and receipts.                                                      *)

FixLogIndexes(logs) == [i \in DOMAIN logs |-> [logs[i] EXCEPT !.index = i - 1]]
LogsOfReceipts(rs) == FlattenSeq([i \in DOMAIN rs |-> rs[i].logs])
LogsUpTo(rs, i) == Len(LogsOfReceipts(SubSeq(rs, 1, i)))
RenumberLogs(rs) ==
  [i \in DOMAIN rs |->
     [rs[i] EXCEPT !.logs = [k \in DOMAIN @ |-> [@[k] EXCEPT !.index = LogsUpTo(rs, i - 1) + k - 1]]]]

(* Mutant: the logs of the height are taken whatever block they name.      *)
ApplyLogsAnyBlock(net, options, raw, answer) ==
  IF answer = << >> /\ raw.block.logs_bloom # {} THEN MarkNotReady(raw)
  ELSE [raw EXCEPT !.logs = answer]

ApplyLogs(net, options, raw, answer) ==
  LET own == SelectSeq(answer, LAMBDA log : log.block_hash = raw.block.hash)
      logs == IF Has(net, "NonSequentialLogIndexes") THEN FixLogIndexes(own) ELSE own
  IN CASE logs = << >> /\ raw.block.logs_bloom # {} -> MarkNotReady(raw)
       [] ~VerifyLogs(net, options, raw.block, logs) -> MarkInvalid(raw)
       [] OTHER -> [raw EXCEPT !.logs = logs]

AllOf(rs, block) == \A r \in ToSet(rs) : r.block_hash = block.hash

(* The checks judge what will be served.                                   *)
TakeReceipts(net, options, raw, answer) ==
  LET rs == IF Has(net, "NonSequentialLogIndexes") THEN RenumberLogs(answer) ELSE answer IN
  IF VerifyLogs(net, options, raw.block, LogsOfReceipts(rs)) /\ VerifyReceipts(net, options, raw.block, rs)
  THEN [raw EXCEPT !.receipts = rs]
  ELSE MarkInvalid(raw)

(* Nulls within an answer are left out before it is counted.               *)
ApplyReceiptsByBlock(net, options, raw, answer) ==
  CASE answer = CallError -> MarkInvalid(raw)
    [] answer = None -> MarkNotReady(raw)
    [] OTHER ->
       LET rs == SelectSeq(answer, LAMBDA r : r # None) IN
       CASE ~AllOf(rs, raw.block) -> MarkHeaderContested(raw)
         [] Len(rs) # Len(raw.block.transactions) -> MarkNotReady(raw)
         [] OTHER -> TakeReceipts(net, options, raw, rs)

(* One answer per transaction; an error reads as a null.                   *)
ApplyReceiptsByTx(net, options, raw, answers) ==
  LET rs == SelectSeq(answers, LAMBDA r : r \notin {None, CallError}) IN
  CASE Len(rs) # Len(raw.block.transactions) -> MarkNotReady(raw)
    [] ~AllOf(rs, raw.block) -> MarkHeaderContested(raw)
    [] OTHER -> TakeReceipts(net, options, raw, rs)

ApplyReceipts(method, net, options, raw, answer) ==
  IF method = "ByBlock" THEN ApplyReceiptsByBlock(net, options, raw, answer)
  ELSE ApplyReceiptsByTx(net, options, raw, answer)

-----------------------------------------------------------------------------
(* Traces and state diffs: an error or a null is incoherence, not lag.     *)

UnwrapComponent(answer) == answer \notin {CallError, None}

CheckFrameLabel(entry, i, txs) ==
  entry.label # None => i \in DOMAIN txs /\ entry.label = txs[i].hash

(* Where lengths disagree entries are matched by label, the last one of a  *)
(* transaction standing; a gap is tolerated on some networks.              *)
MatchByTxHash(net, arr, txs) ==
  LET of(i) == {k \in DOMAIN arr : arr[k].label = txs[i].hash}
      mapped == [i \in DOMAIN txs |-> IF of(i) = {} THEN None ELSE arr[Max(of(i))]]
  IN IF Has(net, "PartialTraceCoverage") \/ \A i \in DOMAIN txs : mapped[i] # None THEN mapped
     ELSE Incoherent

ValidateDebugFrames(options, txs, frames) ==
  \A i \in DOMAIN frames : frames[i] # None =>
    /\ CheckFrameLabel(frames[i], i, txs)
    /\ CheckDebugFrameStructure(frames[i].tree)
    /\ options.call_frame_validation = "reject" => CheckCallFrameTree(txs[i], frames[i].tree)

DebugFrames(net, options, block, answer) ==
  LET txs == block.transactions
      frames == IF Len(answer) = Len(txs) THEN answer ELSE MatchByTxHash(net, answer, txs)
  IN IF ~UnwrapComponent(answer) THEN Incoherent
     ELSE IF frames = Incoherent \/ ~ValidateDebugFrames(options, txs, frames) THEN Incoherent
     ELSE frames

DebugStateDiffs(net, block, answer) ==
  LET txs == block.transactions IN
  CASE ~UnwrapComponent(answer) -> Incoherent
    [] Len(answer) # Len(txs) -> MatchByTxHash(net, answer, txs)
    [] \A i \in DOMAIN txs : CheckFrameLabel(answer[i], i, txs) -> answer
    [] OTHER -> Incoherent

(* A replay without a hash takes that of its first frame that names one.   *)
Attributed(rep) ==
  LET named == SelectSeq(IF rep.trace = None THEN << >> ELSE rep.trace, LAMBDA f : f.tx # None) IN
  IF rep.tx = None /\ named # << >> THEN [rep EXCEPT !.tx = named[1].tx] ELSE rep

(* Exactly one replay per transaction, each with what was asked for.       *)
ReplaysOf(block, tracers, answer) ==
  LET reps == [i \in DOMAIN answer |-> Attributed(answer[i])] IN
  IF /\ UnwrapComponent(answer)
     /\ \A rep \in ToSet(reps) :
          /\ rep.tx # None
          /\ rep.trace # None => \A f \in ToSet(rep.trace) : f.tx \in {None, rep.tx}
          /\ "trace" \in tracers => rep.trace \notin {None, << >>}
          /\ "stateDiff" \in tracers => rep.state_diff # None
          /\ InBlock(block, rep.tx)
     /\ \A tx \in ToSet(block.transactions) : Cardinality({i \in DOMAIN reps : reps[i].tx = tx.hash}) = 1
  THEN reps ELSE Incoherent

(* trace_block answers by number: every frame must name the block and      *)
(* every transaction have one.  Frames are grouped in the order first seen. *)
TraceBlockReplays(block, answer) ==
  LET named == SelectSeq(answer, LAMBDA f : f.tx # None)
      firsts == SelectSeq([i \in DOMAIN named |-> i],
                          LAMBDA i : \A k \in 1 .. i - 1 : named[k].tx # named[i].tx)
  IN IF /\ UnwrapComponent(answer)
        /\ \A f \in ToSet(answer) : f.block_hash = block.hash
        /\ \A tx \in ToSet(block.transactions) : \E f \in ToSet(named) : f.tx = tx.hash
     THEN [i \in DOMAIN firsts |->
             [tx |-> named[firsts[i]].tx, state_diff |-> None,
              trace |-> SelectSeq(named, LAMBDA f : f.tx = named[firsts[i]].tx)]]
     ELSE Incoherent

-----------------------------------------------------------------------------
(* Which calls the traces leg makes.                                       *)

WantsDebugFrames(req) == req.traces /\ ~req.use_trace_api
WantsDebugDiffs(req) == req.state_diffs /\ req.use_debug_api_for_state_diffs
WantsReplay(req) == req.state_diffs /\ ~req.use_debug_api_for_state_diffs
WantsTraceBlock(req) == req.traces /\ req.use_trace_api /\ ~WantsReplay(req)
Tracers(req) == {"stateDiff"} \cup (IF req.traces /\ req.use_trace_api THEN {"trace"} ELSE {})
Traceable(raw) == raw.block.number # 0

(* One component of the traces leg: set it, or mark the block.             *)
SetComponent(raw, field, component) ==
  IF component = Incoherent THEN MarkInvalid(raw) ELSE [raw EXCEPT ![field] = component]

ApplyTraces(net, options, req, raw, a) ==
  LET frames(r) == IF ~WantsDebugFrames(req) THEN r
                   ELSE SetComponent(r, "debug_frames", DebugFrames(net, options, r.block, a.debug_frames))
      diffs(r) == IF ~WantsDebugDiffs(req) THEN r
                  ELSE SetComponent(r, "debug_state_diffs", DebugStateDiffs(net, r.block, a.debug_diffs))
      replays(r) == CASE WantsReplay(req) ->
                           SetComponent(r, "trace_replays", ReplaysOf(r.block, Tracers(req), a.replays))
                      [] WantsTraceBlock(req) ->
                           SetComponent(r, "trace_replays", TraceBlockReplays(r.block, a.trace_block))
                      [] OTHER -> r
  IN IF Traceable(raw) THEN replays(diffs(frames(raw))) ELSE raw

(* missing_legs: the traces leg is kept or dropped whole.                  *)
TracesLegInHand(raw, req) ==
  Traceable(raw) =>
    /\ WantsDebugFrames(req) => raw.debug_frames # None
    /\ WantsDebugDiffs(req) => raw.debug_state_diffs # None
    /\ WantsReplay(req) \/ (req.traces /\ req.use_trace_api) => raw.trace_replays # None

MissingLegs(raw, req) ==
  [req EXCEPT !.logs = @ /\ raw.logs = None, !.receipts = @ /\ raw.receipts = None,
              !.traces = @ /\ ~TracesLegInHand(raw, req), !.state_diffs = @ /\ ~TracesLegInHand(raw, req)]

AnyLeg(req) == req.logs \/ req.receipts \/ req.traces \/ req.state_diffs
=============================================================================
