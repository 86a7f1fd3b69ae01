----------------------------- MODULE Commitments -----------------------------
(***************************************************************************)
(* What a header commits to, and the checks made of it (chain_utils.rs,    *)
(* verification.rs, the verify_ functions of fetch.rs).  A hash or a root  *)
(* is modelled by the value it commits to, so that two are equal exactly   *)
(* when what they cover is; a bloom by the set of topics it covers.        *)
(***************************************************************************)
EXTENDS Integers, SequencesExt

CONSTANT None

(* The registry rows of chain_utils.rs, one per family of networks.        *)
Quirks ==
  [baseline |-> {},
   bor |-> {"StateSyncTx", "PartialTraceCoverage"},
   hyperliquid |-> {"ZeroGasSystemTx"},
   stable |-> {"FakeSignatureSystemTx", "NonSequentialLogIndexes"},
   tempo |-> {"TempoHeader", "LegacyFakeSignatureSystemTx"},
   arbitrum |-> {}]
UnencodableTxs(net) == CASE net = "bor" -> {"pip74"} [] net = "arbitrum" -> {"retryable"} [] OTHER -> {}
Networks == DOMAIN Quirks
Has(net, quirk) == quirk \in Quirks[net]

-----------------------------------------------------------------------------
(* Which transactions and receipts the header's commitments cover.         *)

StateSyncTxHash(block) == <<"sync", block.hash>>

(* None where the network synthesises no transaction.                      *)
PhantomTxHash(net, block) == IF Has(net, "StateSyncTx") THEN StateSyncTxHash(block) ELSE None

IsUncommittedTx(net, block, tx) ==
  \/ tx.hash = PhantomTxHash(net, block)
  \/ Has(net, "ZeroGasSystemTx") /\ tx.gas_price = 0

IsUncommittedReceipt(net, block, r) ==
  \/ r.tx = PhantomTxHash(net, block)
  \/ Has(net, "ZeroGasSystemTx") /\ r.cumulative = 0

UncommittedTxHashes(net, block) ==
  {tx.hash : tx \in {t \in ToSet(block.transactions) : IsUncommittedTx(net, block, t)}}

CommittedReceipts(net, block, receipts) ==
  SelectSeq(receipts, LAMBDA r : ~IsUncommittedReceipt(net, block, r))

(* A signature no recovery answers.                                        *)
IsUnsigned(net, tx) ==
  \/ Has(net, "ZeroGasSystemTx") /\ tx.gas_price = 0
  \/ Has(net, "FakeSignatureSystemTx") /\ tx.signature = None
  \/ Has(net, "LegacyFakeSignatureSystemTx") /\ tx.signature = None /\ tx.type = "legacy"

-----------------------------------------------------------------------------
(* The commitments as computed from an answer.                             *)

(* The fields the hash covers: the network's own encoding of the header    *)
(* extends them with what it names.                                        *)
HeaderFields(block) ==
  <<block.number, block.parent_hash, block.transactions_root, block.receipts_root,
    block.logs_bloom, block.withdrawals_root>>
BlockHash(net, block) ==
  IF Has(net, "TempoHeader") THEN <<block.shared_gas_limit, HeaderFields(block)>> ELSE <<HeaderFields(block)>>

(* What the sender signs, and with the signature what is encoded: neither  *)
(* the hash nor the sender that the node names.  A type no encoder knows   *)
(* and a missing field fail the encoding.                                  *)
SigningPayload(tx) == <<tx.type, tx.gas_price, tx.to, tx.value, tx.input>>
Encodable(tx) == tx.type \in {"legacy", "typed"} /\ tx.value # None
EncodeTransaction(tx) == <<SigningPayload(tx), tx.signature>>

(* None where it cannot be computed, which is no header's root.            *)
TransactionsRoot(net, block) ==
  LET txs == SelectSeq(block.transactions, LAMBDA tx : ~IsUncommittedTx(net, block, tx))
  IN IF \A i \in DOMAIN txs : Encodable(txs[i]) THEN [i \in DOMAIN txs |-> EncodeTransaction(txs[i])] ELSE None

(* A block with a transaction that cannot be expressed is not checked.     *)
TransactionsRootKnown(net, block) ==
  \A tx \in ToSet(block.transactions) : tx.type \notin UnencodableTxs(net)

LogsBloom(net, block, logs) ==
  {log.topic : log \in {l \in ToSet(logs) : l.tx \notin UncommittedTxHashes(net, block)}}

EncodeReceipt(r, use_gas_used) ==
  <<IF use_gas_used THEN r.gas_used ELSE r.cumulative, [i \in DOMAIN r.logs |-> r.logs[i].topic]>>
ReceiptsRoot(net, use_gas_used, block, receipts) ==
  LET committed == CommittedReceipts(net, block, receipts)
  IN [i \in DOMAIN committed |-> EncodeReceipt(committed[i], use_gas_used)]

WithdrawalsRoot(withdrawals) == <<"withdrawals", withdrawals>>

(* recover_tx_sender: no answer for the system transactions and for the    *)
(* types that carry no signature.  From a signature of something else, or  *)
(* none, the sender is not recovered.                                      *)
NoRecovery(net, tx) == IsUnsigned(net, tx) \/ tx.type \in {"retryable", "pip74"}
SenderRecovered(net, tx) ==
  NoRecovery(net, tx) \/ tx.signature = [by |-> tx.from, over |-> SigningPayload(tx)]

-----------------------------------------------------------------------------
(* The gates of fetch.rs: TRUE where the enabled checks find nothing.      *)

VerifyHeader(net, options, block) ==
  /\ options.verify_block_hash => BlockHash(net, block) = block.hash
  /\ options.verify_tx_root =>
       (TransactionsRootKnown(net, block) => TransactionsRoot(net, block) = block.transactions_root)
  /\ options.verify_tx_sender =>
       \A tx \in ToSet(block.transactions) : SenderRecovered(net, tx)
  /\ options.verify_withdrawals_root =>
       /\ (block.withdrawals = None) <=> (block.withdrawals_root = None)
       /\ block.withdrawals # None => WithdrawalsRoot(block.withdrawals) = block.withdrawals_root

VerifyLogs(net, options, block, logs) ==
  /\ options.check_log_index => \A i \in DOMAIN logs : logs[i].index = i - 1
  /\ options.verify_logs_bloom => LogsBloom(net, block, logs) = block.logs_bloom

(* The gas of the committed receipts accumulates.                          *)
CumulativeGasUsed(rs) ==
  \A i \in DOMAIN rs : rs[i].cumulative = (IF i = 1 THEN 0 ELSE rs[i - 1].cumulative) + rs[i].gas_used

VerifyReceipts(net, options, block, receipts) ==
  /\ options.check_cumulative_gas_used => CumulativeGasUsed(CommittedReceipts(net, block, receipts))
  /\ options.verify_receipts_root =>
       ReceiptsRoot(net, options.use_gas_used_for_receipts_root, block, receipts) = block.receipts_root

(* RpcOptions::validate and validate_request.                              *)
ValidateRequest(options, req) ==
  /\ options.call_frame_validation = "reject" => options.verify_tx_root /\ options.verify_tx_sender
  /\ options.use_gas_used_for_receipts_root => options.verify_receipts_root
  /\ options.verify_receipts_root => req.receipts
=============================================================================
