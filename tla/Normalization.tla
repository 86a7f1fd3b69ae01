---------------------------- MODULE Normalization ----------------------------
(***************************************************************************)
(* map_rpc_block of normalization.rs: a raw block and its components       *)
(* become the record that is served.  Field copies and their formatting    *)
(* are left out: a transaction, a log or a diff stands for its fields.     *)
(***************************************************************************)
EXTENDS CallFrames

(* The account fields of a state diff; every other key is a storage slot.  *)
AccountFields == {"code", "balance", "nonce"}
At(map, key) == IF key \in DOMAIN map THEN map[key] ELSE None

DebugStateDiffRecord(index, key, prev, next) ==
  [transaction_index |-> index, key |-> key, prev |-> prev, next |-> next,
   kind |-> CASE prev = None /\ next # None -> "+"
              [] prev # None /\ next = None -> "-"
              [] prev # None /\ next # None -> "*"
              [] OTHER -> "="]

(* An account field is reported when the transaction left one, with a      *)
(* missing nonce read as zero; a slot whenever either side holds it.       *)
MapDebugStateDiff(index, diff) ==
  LET prev(key) == IF key = "nonce" /\ key \notin DOMAIN diff.pre THEN 0 ELSE At(diff.pre, key)
      keys == (AccountFields \cap DOMAIN diff.post)
              \cup ((DOMAIN diff.pre \cup DOMAIN diff.post) \ AccountFields)
  IN {DebugStateDiffRecord(index, key, prev(key), At(diff.post, key)) : key \in keys}

(* A replayed diff names its kind; what did not change is dropped.         *)
MapReplayStateDiff(index, diff) ==
  {[transaction_index |-> index, key |-> key, prev |-> diff[key].prev, next |-> diff[key].next,
    kind |-> diff[key].kind] : key \in {k \in DOMAIN diff : diff[k].kind # "="}}

(* The position of a transaction, the last where a hash is repeated.       *)
TxIndex(block, hash) == Max({i \in DOMAIN block.transactions : block.transactions[i].hash = hash})
InBlock(block, hash) == \E tx \in ToSet(block.transactions) : tx.hash = hash

MapTransaction(tx, receipt) == [tx |-> tx, receipt |-> receipt]
MapTraceFrame(index, frame) == [transaction_index |-> index, frame |-> frame]

(* Logs come from eth_getLogs where those were asked for, else from the    *)
(* receipts.                                                               *)
MapLogs(raw) ==
  CASE raw.logs # None -> raw.logs
    [] raw.receipts # None -> FlattenSeq([i \in DOMAIN raw.receipts |-> raw.receipts[i].logs])
    [] OTHER -> << >>

ReplaysInBlock(raw) == SelectSeq(raw.trace_replays, LAMBDA r : InBlock(raw.block, r.tx))

MapTraces(raw) ==
  CASE raw.debug_frames # None ->
         FlattenSeq([i \in DOMAIN raw.debug_frames |->
           IF raw.debug_frames[i] = None THEN << >> ELSE MapDebugFrame(i, raw.debug_frames[i].tree)])
    [] raw.trace_replays # None ->
         LET rs == ReplaysInBlock(raw) IN
         FlattenSeq([i \in DOMAIN rs |->
           IF rs[i].trace = None THEN << >>
           ELSE [k \in DOMAIN rs[i].trace |-> MapTraceFrame(TxIndex(raw.block, rs[i].tx), rs[i].trace[k])]])
    [] OTHER -> << >>

MapStateDiffs(raw) ==
  CASE raw.debug_state_diffs # None ->
         UNION {MapDebugStateDiff(i, raw.debug_state_diffs[i].diff) :
                  i \in {k \in DOMAIN raw.debug_state_diffs : raw.debug_state_diffs[k] # None}}
    [] raw.trace_replays # None ->
         UNION {MapReplayStateDiff(TxIndex(raw.block, r.tx), r.state_diff) :
                  r \in {q \in ToSet(ReplaysInBlock(raw)) : q.state_diff # None}}
    [] OTHER -> {}

MapRpcBlock(raw, req) ==
  [header |-> raw.block,
   transactions |-> [i \in DOMAIN raw.block.transactions |->
      MapTransaction(raw.block.transactions[i],
                     IF raw.receipts # None /\ i \in DOMAIN raw.receipts THEN raw.receipts[i] ELSE None)],
   logs |-> MapLogs(raw),
   traces |-> IF req.traces THEN MapTraces(raw) ELSE None,
   state_diffs |-> IF req.state_diffs THEN MapStateDiffs(raw) ELSE None]
=============================================================================
