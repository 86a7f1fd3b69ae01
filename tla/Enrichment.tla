----------------------------- MODULE Enrichment -----------------------------
(***************************************************************************)
(* enrich_block_with_retry of fetch.rs: a header in hand is given its      *)
(* requested components, against a fleet whose nodes disagree and lag.     *)
(* A round that leaves the block invalid is followed by another: of the    *)
(* missing legs only, or of the whole block.  Lag is waited out until a    *)
(* deadline, contradictions a number of times.                             *)
(***************************************************************************)
EXTENDS EvmUpstream

CONSTANTS
  Setups,            \* network, options and request to run with
  EnrichRetries,     \* P_ENRICH_RETRIES
  LegsOnlyRetries,   \* LEGS_ONLY_RETRIES
  NotReadyBudget     \* NOT_READY_BUDGET, in units of NOT_READY_DELAY

ASSUME BudgetsAssumption == {EnrichRetries, LegsOnlyRetries, NotReadyBudget} \subseteq Nat

VARIABLES
  setup,
  receipts_method,     \* probed once, then kept
  raw,                 \* the block in hand, None when the height had none
  want,                \* the legs of the current round
  at,                  \* legs, judge, sleep, header, or how it ended
  bound,               \* the current round runs under the deadline
  left,                \* what is left until the deadline, None before it is set
  incoherent_retries,
  legs_only_streak,
  settled,             \* None, or the branch the nodes settled on (external)
  healable             \* the budgets left at that moment suffice to use it

vars == <<setup, receipts_method, raw, want, at, bound, left, incoherent_retries, legs_only_streak, settled, healable>>
ladder == <<bound, left, incoherent_retries, legs_only_streak>>

net == setup.net
options == setup.options
req == setup.req
Ends_ == {"served", "exhausted", "error"}

(* get_blocks and get_block_batch for one height: a null is no block, an   *)
(* answer that is not the height's or fails a check an invalid one.        *)
IncoherentPlaceholder ==
  MarkInvalid(NewRaw([f \in DOMAIN Header(net, "A") |->
    CASE f = "number" -> Height [] f = "transactions" -> << >> [] f = "logs_bloom" -> {} [] OTHER -> None]))

GetBlock(answer) ==
  CASE answer = None -> None
    [] answer = CallError -> IncoherentPlaceholder
    [] answer.number # Height \/ ~VerifyHeader(net, options, answer) -> MarkInvalid(NewRaw(answer))
    [] OTHER -> NewRaw(answer)

(* The header comes from the poll, which passes on none it finds invalid.  *)
Init ==
  /\ setup \in Setups
  /\ receipts_method = None
  /\ raw \in {r \in {GetBlock(h) : h \in HeaderAnswers(net, None) \ {None, Failed}} : ~r.is_invalid}
  /\ want = req
  /\ at = IF AnyLeg(req) THEN "legs" ELSE "served"
  /\ bound = FALSE /\ left = None /\ incoherent_retries = 0 /\ legs_only_streak = 0
  /\ settled = None /\ healable = FALSE

-----------------------------------------------------------------------------
(* fetch_and_apply.  The legs are fetched side by side and applied in      *)
(* order; a leg that fails ends the enrichment.                            *)

Answers(wanted, answers) == IF wanted THEN answers ELSE {None}

(* get_receipts_method: an array answers the probe; anything else settles  *)
(* on the lookup by transaction, for good.                                 *)
Probe == IF ~want.receipts \/ receipts_method # None THEN {receipts_method} ELSE {"ByBlock", "ByTx"}

ReceiptAnswers(method) ==
  IF method = "ByBlock" THEN ByBlockAnswers(net, settled)
  ELSE ByTxAnswers(net, settled, raw.block.transactions)

TraceAnswers ==
  LET on(wants) == wants /\ Traceable(raw) IN
  [debug_frames : Answers(on(WantsDebugFrames(want)), DebugFrameAnswers(net, settled, want, raw.block)),
   debug_diffs : Answers(on(WantsDebugDiffs(want)), DebugDiffAnswers(net, settled, want, raw.block)),
   replays : Answers(on(WantsReplay(want)), ReplayAnswers(net, settled, want, raw.block)),
   trace_block : Answers(on(WantsTraceBlock(want)), TraceBlockAnswers(net, settled))]

Applied(method, logs, receipts, traces) ==
  LET l == IF want.logs THEN ApplyLogs(net, options, raw, logs) ELSE raw
      r == IF want.receipts THEN ApplyReceipts(method, net, options, l, receipts) ELSE l
  IN ApplyTraces(net, options, want, r, traces)

FetchAndApply ==
  /\ at = "legs" /\ raw # None
  /\ \E method \in Probe :
     \E logs \in Answers(want.logs, LogAnswers(net, settled)),
        receipts \in Answers(want.receipts, ReceiptAnswers(method)),
        traces \in TraceAnswers :
       LET failed == Failed \in {logs, receipts, traces.debug_frames, traces.debug_diffs,
                                 traces.replays, traces.trace_block}
           refused == want = req /\ ~ValidateRequest(options, req)
       IN /\ receipts_method' = IF refused THEN receipts_method ELSE method
          /\ at' = IF failed \/ refused THEN "error" ELSE "judge"
          /\ raw' = IF failed \/ refused THEN None ELSE Applied(method, logs, receipts, traces)
  /\ UNCHANGED <<setup, want, settled, healable>> /\ UNCHANGED ladder

(* get_block_batch: the whole block again.                                 *)
FetchHeader ==
  /\ at = "header"
  /\ \E answer \in HeaderAnswers(net, settled) :
       IF answer = Failed THEN at' = "error" /\ raw' = None
       ELSE /\ raw' = GetBlock(answer)
            /\ at' = IF answer = None THEN "judge" ELSE "legs"
  /\ want' = req
  /\ UNCHANGED <<setup, receipts_method, settled, healable>> /\ UNCHANGED ladder

-----------------------------------------------------------------------------
(* The ladder.                                                             *)

Ready == raw # None /\ ~raw.is_invalid
NotReady == raw = None \/ raw.is_not_ready
Contested == raw # None /\ raw.header_contested

(* Mutant: legs alone, for as long as the answers look like lag.           *)
ResidualForEver == NotReady /\ ~Contested /\ raw # None /\ AnyLeg(MissingLegs(raw, req))

(* Only the missing legs: for lag behind an uncontested header, and not    *)
(* for ever.                                                               *)
Residual ==
  /\ NotReady /\ ~Contested /\ raw # None
  /\ legs_only_streak < LegsOnlyRetries
  /\ AnyLeg(MissingLegs(raw, req))

(* Mutant: every round that lags moves the deadline.                       *)
DeadlineMoving == NotReadyBudget

(* What is left until the deadline, set by the first round that lags.      *)
Deadline == IF left = None THEN NotReadyBudget ELSE left

Serve ==
  /\ at = "judge" /\ Ready
  /\ at' = "served"
  /\ UNCHANGED <<setup, receipts_method, raw, want, settled, healable>> /\ UNCHANGED ladder

Exhausted == IF NotReady THEN Deadline = 0 ELSE incoherent_retries >= EnrichRetries

GiveUp ==
  /\ at = "judge" /\ ~Ready
  /\ Exhausted
  /\ at' = "exhausted" /\ raw' = None
  /\ UNCHANGED <<setup, receipts_method, want, settled, healable>> /\ UNCHANGED ladder

Retry ==
  /\ at = "judge" /\ ~Ready
  /\ ~Exhausted
  /\ at' = "sleep"
  /\ bound' = NotReady
  /\ left' = IF NotReady THEN Deadline ELSE left
  /\ incoherent_retries' = IF NotReady THEN incoherent_retries ELSE incoherent_retries + 1
  /\ legs_only_streak' = IF Residual THEN legs_only_streak + 1 ELSE 0
  /\ IF Residual THEN want' = MissingLegs(raw, req) /\ raw' = ClearInvalid(raw)
     ELSE want' = req /\ raw' = None
  /\ UNCHANGED <<setup, receipts_method, settled, healable>>

(* The delay before a round; the shorter one of a contradiction is         *)
(* modelled as taking no time.                                             *)
Wake ==
  /\ at = "sleep"
  /\ bound => left > 0
  /\ left' = IF bound THEN left - 1 ELSE left
  /\ at' = IF raw = None THEN "header" ELSE "legs"
  /\ UNCHANGED <<setup, receipts_method, raw, want, bound, incoherent_retries, legs_only_streak, settled, healable>>

(* timeout_at drops the round.                                             *)
TimesOut ==
  /\ bound /\ left = 0 /\ at \in {"sleep", "legs", "header"}
  /\ at' = "exhausted" /\ raw' = None
  /\ UNCHANGED <<setup, receipts_method, want, settled, healable>> /\ UNCHANGED ladder

(* Time passes while a round waits for a slow node.                        *)
Tick ==
  /\ settled = None /\ at \in {"legs", "header"}
  /\ left # None /\ left > 0
  /\ left' = left - 1
  /\ UNCHANGED <<setup, receipts_method, raw, want, at, bound, incoherent_retries, legs_only_streak, settled, healable>>

(* From here on every node answers at once, of this branch.                *)
Settle ==
  /\ settled = None /\ at \in {"legs", "header", "sleep", "judge"}
  /\ settled' \in Branches
  /\ healable' = ((left = None \/ left > LegsOnlyRetries + 2) /\ incoherent_retries + 1 < EnrichRetries)
  /\ UNCHANGED <<setup, receipts_method, raw, want, at>> /\ UNCHANGED ladder

Over == at \in Ends_ /\ UNCHANGED vars

Round == FetchAndApply \/ FetchHeader \/ Serve \/ GiveUp \/ Retry \/ Wake \/ TimesOut
Next == Round \/ Tick \/ Settle \/ Over

(* Every call is answered, or fails by the client's timeout.               *)
Spec == Init /\ [][Next]_vars /\ WF_vars(Round)

-----------------------------------------------------------------------------
Served == MapRpcBlock(raw, req)
Branch == CHOOSE b \in Branches : HashOf(net, b) = raw.block.hash

(* An entry filed under transaction i: by the hash the entry names, which  *)
(* is then the one served, or by its position, which is then that of the   *)
(* transaction executed, since the root binds the order.                   *)
FiledUnder(i, of, labelled) ==
  IF labelled THEN of.tx = raw.block.transactions[i].hash
  ELSE options.verify_tx_root => of.tx = Header(net, Branch).transactions[i].hash

(* Everything the served block's header commits to is there and its own:   *)
(* the transactions (but for the hash, which nothing checks and which is   *)
(* served as given), their senders, their receipts by position, the logs.  *)
(* Every trace and diff is of the transaction it is filed under and, where *)
(* the node was asked by hash or must name the block, of this block; each  *)
(* transaction has its own unless the network leaves some untraced.        *)
ServedBelongs ==
  at = "served" /\ AnyLeg(req) =>
    LET genuine == Header(net, Branch)
        txs == raw.block.transactions
        here(of) == req.use_debug_trace_block_by_number \/ of.branch = Branch
    IN
    /\ options.verify_block_hash /\ options.verify_withdrawals_root =>
         [raw.block EXCEPT !.transactions = << >>] = [genuine EXCEPT !.transactions = << >>]
    /\ options.verify_block_hash /\ options.verify_tx_root /\ TransactionsRootKnown(net, raw.block) =>
         \A i \in Covered(net) :
           /\ EncodeTransaction(txs[i]) = EncodeTransaction(genuine.transactions[i])
           /\ options.verify_tx_sender => txs[i].from = genuine.transactions[i].from
    /\ req.receipts /\ options.verify_receipts_root =>
         \A i \in Covered(net) : Served.transactions[i].receipt.tx = genuine.transactions[i].hash
    /\ req.logs \/ req.receipts =>
         \A log \in ToSet(Served.logs) : log.block_hash = genuine.hash
    /\ (req.logs \/ req.receipts) /\ options.verify_logs_bloom =>
         \A i \in Covered(net) : \E log \in ToSet(Served.logs) : log.topic = Topics(Branch)[i]
    /\ WantsDebugFrames(req) =>
         \A i \in DOMAIN txs :
           LET frame == raw.debug_frames[i] IN
           IF frame = None THEN Has(net, "PartialTraceCoverage")
           ELSE here(frame.of) /\ FiledUnder(i, frame.of, frame.label # None)
    /\ WantsDebugDiffs(req) =>
         \A i \in DOMAIN txs : \E d \in Served.state_diffs :
           /\ d.transaction_index = i /\ d.key = "slot"
           /\ here(d.next) /\ FiledUnder(i, d.next, raw.debug_state_diffs[i].label # None)
    /\ WantsReplay(req) =>
         \A i \in DOMAIN txs :
           {d.next : d \in {e \in Served.state_diffs : e.transaction_index = i}} = {[branch |-> Branch, tx |-> txs[i].hash]}
    /\ req.traces /\ req.use_trace_api =>
         \A i \in DOMAIN txs :
           {t.frame.of : t \in {u \in ToSet(Served.traces) : u.transaction_index = i}} = {[branch |-> Branch, tx |-> txs[i].hash]}

(* The served call tree is whole: a record for every frame, and as many    *)
(* children as its subtraces say, at consecutive addresses.  The consumer  *)
(* rebuilds the tree from exactly that.                                    *)
TraceTreeKept ==
  at = "served" /\ WantsDebugFrames(req) =>
    LET addressed(i) == {t.trace_address : t \in {u \in ToSet(Served.traces) : u.transaction_index = i}} IN
    \A t \in ToSet(Served.traces) : \A k \in 0 .. t.subtraces - 1 :
      Append(t.trace_address, k) \in addressed(t.transaction_index)

(* Once the nodes agree, and the budgets left allow for a few rounds, the  *)
(* block is served: a header that lost the branch is given up in time, and *)
(* no enabled check keeps failing.  The one that does is the sender check  *)
(* of a state-sync transaction, which is_unsigned does not exempt.         *)
HealsOnceSettled ==
  healable /\ ValidateRequest(options, req) =>
    \/ at \notin {"exhausted", "error"}
    \/ Has(net, "StateSyncTx") /\ options.verify_tx_sender

(* Every enrichment ends, whatever the nodes answer: lag and contradiction *)
(* alternating do not keep it going.                                       *)
EnrichmentEnds == <>(at \in Ends_)
=============================================================================
