----------------------------- MODULE EvmUpstream -----------------------------
(***************************************************************************)
(* What the nodes behind the RPC endpoint may answer about one height, as  *)
(* fetch.rs asks it: external.  Two branches, "A" and "B", hold a block of *)
(* two transactions there: one they share, and one of the kind that makes  *)
(* the network special.  Until the network settles any answer may come     *)
(* from either branch, be partial, null, altered, or fail.                 *)
(***************************************************************************)
EXTENDS Coherence, TLC

CONSTANTS
  Height,
  Failed,     \* the request failed as a whole
  Trees       \* call trees a faulty tracer may answer

Branches == {"A", "B"}

(* On these networks the special transaction is outside the commitments.   *)
Covered(net) == IF net \in {"bor", "hyperliquid"} THEN {1} ELSE {1, 2}
OnlyCovered(net, seq) == IF 2 \in Covered(net) THEN seq ELSE SubSeq(seq, 1, 1)

Unsigned(input) ==
  [hash |-> <<"tx", input>>, type |-> "legacy", gas_price |-> 1, to |-> "x", value |-> 1, input |-> input,
   from |-> "alice", signature |-> None]
Signed(tx) == [tx EXCEPT !.signature = [by |-> tx.from, over |-> SigningPayload(tx)]]
Shared == Signed(Unsigned("shared"))
Special(net, b) ==
  CASE net = "hyperliquid" -> [Unsigned(b) EXCEPT !.gas_price = 0]
    [] net = "stable" -> [Unsigned(b) EXCEPT !.type = "typed"]
    [] net = "arbitrum" -> [Unsigned(b) EXCEPT !.type = "retryable"]
    [] net \in {"tempo", "bor"} -> Unsigned(b)
    [] OTHER -> Signed(Unsigned(b))

Topics(b) == <<b, "special">>
Cumulative(net, i) == IF i \in Covered(net) THEN i ELSE 0
IndexOfLog(net, i) == IF net = "stable" THEN 0 ELSE i - 1

Unhashed(net, b) ==
  [number |-> Height, parent_hash |-> "parent", shared_gas_limit |-> 1,
   transactions_root |-> OnlyCovered(net, <<EncodeTransaction(Shared), EncodeTransaction(Special(net, b))>>),
   receipts_root |-> OnlyCovered(net, [i \in 1 .. 2 |-> <<Cumulative(net, i), <<Topics(b)[i]>>>>]),
   logs_bloom |-> ToSet(OnlyCovered(net, Topics(b))),
   withdrawals |-> << >>, withdrawals_root |-> <<"withdrawals", << >>>>]
Hashes ==
  [n \in Networks, b \in Branches |->
  LET h == Unhashed(n, b)
      fields == <<h.number, h.parent_hash, h.transactions_root, h.receipts_root, h.logs_bloom, h.withdrawals_root>>
  IN IF n = "tempo" THEN <<h.shared_gas_limit, fields>> ELSE <<fields>>]
HashOf(net, b) == Hashes[net, b]

(* The node names bor's transaction after the block.                       *)
Headers ==
  [n \in Networks, b \in Branches |->
    [hash |-> HashOf(n, b),
     transactions |-> <<Shared, IF n = "bor" THEN [Special(n, b) EXCEPT !.hash = <<"sync", HashOf(n, b)>>]
                                ELSE Special(n, b)>>]
    @@ Unhashed(n, b)]
Header(net, b) == Headers[net, b]

LogOf(net, b, i) ==
  [block_hash |-> HashOf(net, b), tx |-> Header(net, b).transactions[i].hash, topic |-> Topics(b)[i],
   index |-> IndexOfLog(net, i)]
LogsOf(net, b) == [i \in 1 .. 2 |-> LogOf(net, b, i)]
ReceiptOf(net, b, i) ==
  [tx |-> Header(net, b).transactions[i].hash, block_hash |-> HashOf(net, b),
   gas_used |-> IF i \in Covered(net) THEN 1 ELSE 0, cumulative |-> Cumulative(net, i),
   logs |-> <<LogOf(net, b, i)>>]
ReceiptsOf(net, b) == [i \in 1 .. 2 |-> ReceiptOf(net, b, i)]

-----------------------------------------------------------------------------
(* Answers.  settled is None, or the branch every node has settled on.     *)

Nodes(settled) == IF settled = None THEN Branches ELSE {settled}
Unsettled(settled, answers) == IF settled = None THEN answers ELSE {}

(* Headers that are not as the network has them: a transaction left out, a *)
(* field changed or missing, a type claimed, hashes exchanged.             *)
Altered(net, b) ==
  LET h == Header(net, b)
      txs == h.transactions
  IN {[h EXCEPT !.transactions = new] :
        new \in {Tail(txs), SubSeq(txs, 1, 1), [txs EXCEPT ![1].from = "bob"], [txs EXCEPT ![1].value = None],
                 [txs EXCEPT ![1].type = "pip74"],
                 [txs EXCEPT ![1].hash = txs[2].hash, ![2].hash = txs[1].hash]}}
     \cup {[h EXCEPT !.logs_bloom = {}], [h EXCEPT !.withdrawals = None]}

HeaderAnswers(net, settled) ==
  {Header(net, b) : b \in Nodes(settled)}
  \cup Unsettled(settled, UNION {Altered(net, b) : b \in Branches} \cup {None, CallError, Failed})

LogAnswers(net, settled) ==
  {LogsOf(net, b) : b \in Nodes(settled)}
  \cup Unsettled(settled, {SubSeq(LogsOf(net, b), 1, 1) : b \in Branches} \cup {<< >>, Failed})

ByBlockAnswers(net, settled) ==
  {ReceiptsOf(net, b) : b \in Nodes(settled)}
  \cup Unsettled(settled, {Tail(ReceiptsOf(net, b)) : b \in Branches}
                          \cup {Reverse(ReceiptsOf(net, b)) : b \in Branches} \cup {None, CallError, Failed})

(* Each transaction may be looked up on another node.                      *)
ReceiptOfTx(net, b, hash) ==
  LET found == {r \in ToSet(ReceiptsOf(net, b)) : r.tx = hash} IN
  IF found = {} THEN None ELSE CHOOSE r \in found : TRUE
ByTxAnswers(net, settled, txs) ==
  {[i \in DOMAIN txs |-> ReceiptOfTx(net, via[i], txs[i].hash)] : via \in [DOMAIN txs -> Nodes(settled)]}
  \cup Unsettled(settled, {[i \in DOMAIN txs |-> CallError], Failed})

(* Tracers: of says which execution an entry is, of which transaction in   *)
(* the block of which branch.  A node on the other branch knows no block   *)
(* of that hash.  An answer by number is labelled, one by hash need not be. *)
Execution(net, b, i) == [branch |-> b, tx |-> Header(net, b).transactions[i].hash]
GoodTree(tx) == (Root :> [kind |-> "Call", from |-> tx.from, to |-> tx.to, input |-> "in", output |-> None, gas_used |-> "1"])
Traced(net) == IF net = "bor" THEN 1 .. 1 ELSE 1 .. 2
Label(net, b, i, req) ==
  IF req.use_debug_trace_block_by_number \/ net = "bor" THEN Header(net, b).transactions[i].hash ELSE None
FrameOf(net, b, i, req) ==
  [label |-> Label(net, b, i, req), tree |-> GoodTree(Header(net, b).transactions[i]), of |-> Execution(net, b, i)]
DiffOf(net, b, i, req) ==
  [label |-> Label(net, b, i, req), diff |-> [pre |-> [nonce |-> 1], post |-> [nonce |-> 2, slot |-> Execution(net, b, i)]]]
Known(net, settled, block) == {b \in Nodes(settled) : HashOf(net, b) = block.hash}
ByHash(net, settled, block, answer) ==
  {IF b \in Known(net, settled, block) THEN answer[b] ELSE None : b \in Nodes(settled)}

DebugAnswers(net, settled, req, block, of) ==
  IF req.use_debug_trace_block_by_number THEN {of[b] : b \in Nodes(settled)}
  ELSE ByHash(net, settled, block, of)

DebugFrameAnswers(net, settled, req, block) ==
  LET of == [b \in Branches |-> [i \in Traced(net) |-> FrameOf(net, b, i, req)]]
      whole == DebugAnswers(net, settled, req, block, of)
      arrays == whole \ {None}
  IN whole \cup Unsettled(settled, {Tail(w) : w \in arrays} \cup {[w EXCEPT ![1].tree = t] : w \in arrays, t \in Trees}
                                   \cup {None, CallError, Failed})

DebugDiffAnswers(net, settled, req, block) ==
  LET of == [b \in Branches |-> [i \in Traced(net) |-> DiffOf(net, b, i, req)]]
      whole == DebugAnswers(net, settled, req, block, of)
  IN whole \cup Unsettled(settled, {Tail(w) : w \in whole \ {None}} \cup {None, Failed})

ReplayOf(net, b, i, tracers) ==
  LET of == Execution(net, b, i) IN
  [tx |-> of.tx, trace |-> IF "trace" \in tracers THEN <<[tx |-> None, of |-> of]>> ELSE None,
   state_diff |-> [slot |-> [kind |-> "+", prev |-> None, next |-> of]]]
ReplayAnswers(net, settled, req, block) ==
  LET of == [b \in Branches |-> [i \in 1 .. 2 |-> ReplayOf(net, b, i, Tracers(req))]]
      arrays == ByHash(net, settled, block, of) \ {None}
  IN ByHash(net, settled, block, of)
     \cup Unsettled(settled, {Tail(w) : w \in arrays} \cup {<<w[1], w[1], w[2]>> : w \in arrays}
                             \cup {[w EXCEPT ![1].tx = None] : w \in arrays} \cup {CallError, Failed})

TraceBlockAnswers(net, settled) ==
  LET frame(b, i) == [tx |-> Header(net, b).transactions[i].hash, block_hash |-> HashOf(net, b),
                      of |-> Execution(net, b, i)]
      reward(b) == [tx |-> None, block_hash |-> HashOf(net, b)]
  IN {<<frame(b, 1), frame(b, 2), frame(b, 1), reward(b)>> : b \in Nodes(settled)}
     \cup Unsettled(settled, {<<reward(b)>> : b \in Branches} \cup {CallError, Failed})
=============================================================================
