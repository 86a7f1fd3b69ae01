# TLA+ models of the hotblocks service

The hotblocks service keeps a sliding window of the newest blocks of an EVM
chain in memory. It follows the head of the chain through JSON-RPC, survives
reorganisations above the finalized head, and serves the window, and anything
below it, to clients over HTTP. This directory holds TLA+ modules translated
from its source, the TLC configurations that check them on small instances, and
proofs checked by TLAPS.

Paths below are relative to `src/crates/`; `core` is `data-service-core/src`.

## Inventory

| Component | State | Operations | Talks to |
|---|---|---|---|
| Chain buffer (`core/chain.rs`) | blocks, finalized position, window size, undo log of the open batch | `push`, `finalize`, `compact`, `begin/commit/rollback_batch`, `query`, `get_fork_base` | called under the write lock by ingestion, under the read lock by queries |
| Ingestion loop (`core/service.rs` `init`, `run`, `ingest_session`, `apply_batch_locked`) | session base, stall counter, first-block flag, running maximum of finality reports, stop and cancel flags | seed, session, fork rebase, restart ladder, re-seed, shutdown | the `DataSource` (streams and calls), the buffer, the watch channel |
| Query service (`core/service.rs` `classify_query`, `wait_for_block`) | none of its own; each request holds where it is between locks | window check, query, wait, query again | buffer, watch channel |
| Backfill and response body (`core/service.rs` `below_query`, `core/http.rs` `handle_stream`, `block_stream`) | producer task, channel of two batches, snapshot tail, records written | pull, continuity check, send, splice, write, truncate | the finalized stream, the client |
| HTTP routes (`core/http.rs`) | none | `/stream`, watermarks, readiness, metrics, block time | query service |
| Readiness and metrics (`core/metrics.rs`, head observer of `core/service.rs`) | last observed upstream head with two ages, stall clock, alarm, counters, block-time cache | observe, record commit, refresh the levels, `is_ready` | everyone writes, HTTP reads |
| EVM source: head stream, finality prober (`evm-source/src/source.rs`) | candidates waiting for finality, last delivered block | `make_stream`, `ensure_continuity`, `finalize_stream`, `absorb` | `ingest.rs`, `fetch.rs` |
| EVM source: range acquisition (`evm-source/src/ingest.rs`) | strides in flight, blocks being enriched, poll state, cadence predictor | `ingest_range`, `acquire_range_stride` | `fetch.rs` |
| EVM source: fetching (`evm-source/src/fetch.rs`) | finalized-head cache with epochs, enrichment attempts and deadlines, chosen receipts method | `get_blocks`, `enrich_block_with_retry`, `fetch_and_apply`, `refresh_finalized_head` | RPC client |
| EVM source: verification, normalization (`verification.rs`, `chain_utils.rs`, `normalization.rs`, `rpc_data.rs`) | none | checks and conversions of one block | `fetch.rs` |
| RPC client (`rpc-client/src`) | rate window, permits, pending calls, retry counts, one WebSocket per pool slot | `call_with_options`, `reduce_batch`, `wait_for_rate`, dial, route, reset | the node |
| Process (`evm-data-service/src/main.rs`) | shutdown reason, pending signals, exit status | start, select, drain | service handle |
| `harness`, `latency-bench` | | test and benchmark tooling | |

What is hard, per component (the `hazards` of PROJECT.json give the lines):

- **Buffer**: a batch is only known to be bad after part of it was applied, so
  an undo log has to restore it; positions shift under trimming; heights have
  gaps; the finalized prefix must survive any reorganisation. *Correct when* the
  buffer is one linked ascending chain, no finalized block is removed except
  from the oldest end or by a re-seed, the window is bounded, and a rejected
  batch leaves no trace.
- **Ingestion**: reports of finality come before the blocks they name; the
  obligation they make survives a fork rebase and no other end of a session;
  forks name blocks the buffer may or may not hold; every failure is retried,
  with a re-seed as last resort; two calls of the seed may be answered by
  different nodes; shutdown arrives anywhere. *Correct when* no obligation is
  dropped or outlives its session, a rebase goes to the newest common ancestor
  at or above the finalized head, the ladder always escalates and a shutdown
  always ends the run.
- **Process**: a signal, the first block's verdict and the end of the run race
  in one `select`; the task may panic; responses may never finish. *Correct
  when* the exit code 0 is earned and a dead loop never leaves a process that
  serves.
- **Queries**: the request takes up to three locks with the writer in between.
  *Correct when* every answer is true of the buffer at its last lock, a conflict
  helps the client to find a common ancestor, and nobody waits for ever.
- **Backfill**: two sources of blocks joined at a seam; a source that may stall
  for ever and a client that may leave. *Correct when* the body is one chain at
  every moment, a body that ends without truncation is complete, and neither
  task nor source outlives the response.
- **Ranges**: strides complete out of order, come back short, or are fetched
  again from a node on another branch; the head poller enriches several blocks
  side by side. *Correct when* the stream is one chain, an error comes after
  everything below it, a fork signal is a real fork, and a range ends.
- **Enrichment**: header, logs, receipts and traces come from different nodes,
  at different times, and only the missing ones are asked for again. *Correct
  when* nothing foreign that a check covers is served, lag heals, and every
  block is served or given up.
- **RPC client**: batches are cut, delayed, split and retried; the answers come
  in any order. *Correct when* each call gets its own answer, the rate is kept
  in every window, and every request ends.
- **WebSocket**: callers share a dial and a socket that any of them may reset.
  *Correct when* a call that waits is told of the end of its socket, every call
  ends, and none disturbs another.
- **Readiness**: two ages of one view, written by readers of the head, by the
  poller and by commits; a verdict is published after the lock it was found under
  is released. *Correct when* a stall is alarmed in bounded time, an idle chain is
  not, a commit silences the alarm, and readiness rests on a fresh read.

## Modules

| Module | Models | Role |
|---|---|---|
| `Chain` | `chain.rs` | the buffer's operations as operators on a record |
| `PublishedChain` | | abstract specification: what any reader of the buffer may observe |
| `ChainBuffer` | the buffer in the hands of its one writer | state machine with one step per call inside a batch; implements `PublishedChain` |
| `ForkBase` | `get_fork_base` | the walk, and the reference definition it is checked against |
| `ApplyBatch` | `validate_ingest_batch`, `apply_batch_locked`, the locked part of `ingest_session` | one batch as an operator |
| `Ingestion` | `init`, `run`, `ingest_session`, stop and shutdown | composes `ApplyBatch` and `ForkBase`; implements `PublishedChain` |
| `Lifecycle` | `main`, `classify_run_end`, `finish_shutdown`, `run_data_service` | the process around `Ingestion` |
| `ChainQuery` | `Chain::query` and the window check | operators and the reference definitions of an answer |
| `QueryService` | `classify_query`, `wait_for_block`, the budget of `handle_stream` | composes `ChainQuery` with `PublishedChain` as its writer |
| `Backfill` | `below_query`, `block_stream`, the body task of `handle_stream` | producer, channel and response |
| `Readiness` | the upstream view, the stall alarm and `is_ready` of `metrics.rs` and `service.rs` | observer, commits, ticker and probes over shared levels |
| `FinalityView` | `FinalizedHeadCache` of `fetch.rs` and its callers | the cached finalized head, its epochs and concurrent fetches |
| `FinalityProber` | `offer`, `absorb`, `finalize_stream` of `source.rs` | the head stream and the prober beside it |
| `StrideAcquire` | `acquire_range_stride`, `range_candidate_issue` | one stride as a function from step to step |
| `RangeIngest` | `ingest_range` of `ingest.rs`, `ensure_continuity` of `source.rs` | composes `StrideAcquire` and `FinalityView` |
| `Commitments` | `chain_utils.rs`, the roots and hashes of `verification.rs`, the `verify_` gates of `fetch.rs` | what a header commits to, per network |
| `CallFrames` | frame checks of `verification.rs`, frame mapping of `normalization.rs` | call trees as functions on trace addresses |
| `Normalization` | `map_rpc_block` | what the served block takes from which component |
| `Coherence` | the `apply_`, `match_` and `validate_` functions of `fetch.rs`, `RawRpcBlock` | which answer may be joined to which block |
| `EvmUpstream` | external | what nodes on two branches may answer |
| `Enrichment` | `enrich_block_with_retry`, `fetch_and_apply`, `get_receipts_method` | the retry ladder over all of the above |
| `RateMeter` | `rate.rs` | the ring of slots |
| `RpcClient` | `client.rs`, `error.rs`, `HttpTransport::send_batch` | one request: chunks, rate, permits, splits and retries |
| `WsTransport` | `transport/ws.rs` | one pooled connection and the calls on it |
| `ChainLemmas` | | theorems about the operators of `Chain`, the search of `bisect` among them |
| `ChainBufferProofs`, `IngestionProofs`, `BackfillProofs`, `FinalityProberProofs`, `RangeIngestProofs`, `RpcClientProofs` | | theorems about the module each is named after; `IngestionProofs` is about the whole process (`Lifecycle`), `RangeIngestProofs` also about `FinalityView`, `RpcClientProofs` also about `RateMeter` and `WsTransport` |
| `ServingProofs` | | theorems about `QueryService` and `Readiness` |
| `MC*` | | constants for TLC |

Rust's index *i* is TLA+'s position *i + 1*: `finalized_head` is the position of
the finalized block. Operators named as a mutant of a definition (the comment
says `Mutant:`) are plausible mistakes, used by no specification; each stands
before the definition it distorts, and shows that some property would catch the
mistake.

**From the buffer to readers.** A block is its ref and its parent's ref; payload,
timestamp and timings carry no control. `PublishedChain` says that a reader sees
a well formed chain that changes in two ways. A publication keeps every block
that was finalized, except that it may forget the oldest ones, and never moves
finality back. A re-seed replaces the chain by one block that does not contradict
what was there. `ChainBuffer` (each call of a batch a step of its own, the lock
modelled by what readers see) and `Ingestion` (a whole locked section as one
step, within everything that goes on around it) both implement it, and
`QueryService` uses it as its writer. So what is checked of queries holds for
whatever the ingestion loop does.

**Ingestion** keeps `pc` where the code has control flow: `loop` (top of the
loop), `reinit` (awaiting `init`), `session` (awaiting the stream), `resolve`
(the session's result in hand), `pause` (the 30 seconds), `ended`. One batch is
one action because the code holds the write lock from `begin_batch` to the
notification; the interior is `ChainBuffer`'s subject. `opened` remembers the
head a session was opened with.

**Lifecycle** lets a panic end the task at any place and takes any ready branch
of `main`'s unbiased `select`. The initial seed that `run_data_service` awaits
before it spawns anything is the initial state of `Ingestion`; its failure is
`StartFails`.

**QueryService** has one request at a time: requests share nothing but the
buffer, and the writer's steps between any two of its own are the interleaving
that matters.

**Backfill** takes the finalized stream for what it is, external: it may yield
any batch of the instance, linked or not, empty or not, fail, end early, or
stall. Records are written one by one, so a body is examined at every prefix.

**FinalityView** has a pool of tasks, each of which may run a seed's read (one at
a time, as there is one ingestion loop), the prober's read-through, or a
background refresh; a fetch is split into its start and its landing. A view
remembers the epoch its question was asked in, which the code does not need and
the property does. The number of seeds is bounded by `MaxEpoch`; the code's
counter wraps at 2^64.

**FinalityProber** abstracts a block to its height and whether it is on the
chain that becomes final: a stream delivers one linked block per height, so the
two determine what a probe can learn. The prober's `pc` is `gather` (absorbing
messages), `pacing` (the wait between rounds), `round` (the call in flight),
`sending`. The upstream may lag or not answer, but does not hold a non-final
block at a height it calls final; that assumption is external to the code. The
prober never ends before its stream, so the stream's `prober_alive` is left out.

**RangeIngest** is one stream, head-following or finalized, over an upstream of
two branches that share their lower blocks: any read may be of either branch,
null, short, invalid or failed. The strides in flight are a sequence, each with
its own progress; the polled blocks being enriched are another. When the next
poll is made is left open, which covers every prediction of the cadence. The
view that limits a range is `FinalityView` itself, with its background refreshes
running beside the loop.

**Commitments** models a hash or root by the value it covers, and a bloom by the
set of its topics: two are equal exactly when what they cover is. That is the
usual assumption about hash functions, and for a bloom a simplification (a real
one may have false positives). What is kept is which transactions, receipts and
fields each covers on which network (`Quirks`), which is where the code can go
wrong. A transaction stands for the fields a check reads. Its encoding is what is
signed and the signature; the hash the node gives it is in neither, no check reads
it, and it is served as given. A signature names who made it and what it is over,
so a sender is recovered only from a signature of these very fields.

**Enrichment** composes these with `EvmUpstream`: nodes on two branches that
answer each leg from either branch, partly, with an altered field, not at all or
with an error, until the network settles. A trace or diff remembers the branch and
the transaction it was executed in (`of`), which the code does not see. `Round` is one `fetch_and_apply`:
its legs are fetched concurrently and applied in a fixed order, so one step
chooses all of their answers. The wall-clock deadline is `left`, the time left in
units of `NOT_READY_DELAY`; a slow answer may use several (`Tick`).

**RpcClient** is one request whose chunks run side by side; the server may
reorder, omit, fail single calls or the whole batch. A rate is a count per
window, since every rate of the code is a count times one factor; `recent` is the
exact count per tick of the clock, which the code does not keep and the property
needs. Backoff delays are left out: a retry may come at any time.

**WsTransport** takes a step per lock and await. A dial, once it connects, is a
handle with its own pending map, reader and writer; `generation` is bumped before
the handle is taken, as in the code, and a caller that resets reads it in one step
and swaps it in another, so it may find that somebody else was first. Call `a` is a single call, `ab` a batch of
two. Pings, frames and TLS are left out.

**Readiness** measures an instant by its age in time units, capped where all
comparisons have their last value. A task may be interrupted between any two of
its accesses to shared state (sampling the view, consulting the clock and
publishing the verdict; pushing and recording a commit) by steps of the others,
but not by a whole time unit. So a commit may come between a verdict and its
publication, and of two evaluations the older verdict may be published last;
`overtaken` marks a verdict in hand when a commit is recorded.
`quiet`, `seeded`, `watched` and `heard` are history the properties compare the
code's clocks with.

## Runs

| Run | States | Shows |
|---|---|---|
| `buffer` | 1 703 | the window bound, the undo log, the finalized prefix, rollback, and the refinement of `PublishedChain` |
| `ingestion` | 368 284 | the loop in its process: obligations, rebases, refinement of `PublishedChain`; the ladder escalates, a shutdown ends the run, a dead loop ends the process, exit 0 is earned |
| `query` | 22 512 | answers are true, conflicts converge, a commit releases its waiter, every request is answered |
| `backfill` | 4 542 | body, completeness, reaping |
| `range_ingest` | 26 277 | order, continuity, faults and forks of a stream; the finalized view it reads |
| `enrichment` | 383 443 | nothing foreign that a check covers is served, traces and diffs are of their transaction and block, trees are whole, lag heals, every block ends |
| `finality_prober` | 45 857 | true watermarks, confirmation of the last head, the prober's end |
| `rpc_client` | 169 736 | own answers, the rate in every window, every request ends |
| `ws` | 24 578 | no call disturbs another, a reset ends whoever waits on the handle it drains |
| `readiness` | 2 129 195 | bounded alarm, no false alarm but by an overtaken verdict, silenced by a commit, readiness on a fresh read |
| `stall_count`, `ws_short` | | disagreements between code and its documentation, below |

**Bounds.** Heights up to 3 or 4 with two hashes per contested height give a
chain of two forks with a gap; a window of 2 or 3 is the smallest in which
trimming, force-advance and reorganisation above the finalized head all happen
together. `RefSpan` (100 in the code) is 2, so that a conflict's list is cut
both by its length and by the window. `FreeRetries` and `StallLimit` (1 and 5 in
the code) are 1 and 2: the same three zones, no retry pause, pause, re-seed.
`StackedCap` bounds the stall counter one above the limit, where every
comparison of the code already has its last value. `ChannelSize` is the code's
2, `PipelineDepth` the code's 3. `MaxSignals` is 2: one to stop, one to force.
The instances hold malformed, unlinked, equivocating and finality-violating
input as well as good input. Heights are naturals: the code never computes a
height above its input except with saturating additions. The `buffer` run has a
moving window; the proofs cover the fixed one too.

In `range_ingest` six heights, the upper three disputed, in strides of two, two
at a time, give a stride on each side of the fork and one across it; the view
names the lowest or the highest of them, so both modes and the change between
them happen. `EnrichRetries` (10 in the code) is 1 or 2, `LegsOnlyRetries` (3) is
1, `NotReadyBudget` (300 delays) is 4: each is long enough to be used up and to
be interrupted by the others. Every network of the registry's families is run
with all checks on, bor also without the sender's (below), and the
requests that matter for it (`MCSetups`), and tracers
answer with every small tree over the kinds the checks tell apart (`MCTrees`).
In `finality_prober` a stream of five blocks meets a queue of three and rounds of
two, so that both channels fill, probes go back before others, and the newest
candidate is replaced; `missed` marks the one case the code gives up on, an offer
to a full ingress that no later block follows. In `rpc_client` three calls in
batches of two or three meet limits of two and three per window of two slots, two
ticks each, so that reservations fall on both sides of a slot's edge; `MaxClock`
is above any time an admissible request takes. In `ws` two dials allow a call to
hold a handle that was replaced; the single call has a timeout and the batch has
none (the timeout is an option of each call), so that what ends the batch is the
drain. In `readiness` `StallAfter` is 4, the smallest for which the observer's
interval and timeout differ from it and from each other. Two evaluations, which
are alike (the symmetry), and two heights: one block to be behind by, committed,
committed again as a duplicate or after a re-seed. The theorems have no bound on
either.

**Fairness.** A task that can run is scheduled, a timer fires, and the calls of
a re-init return, because the RPC client bounds each (over HTTP; over a WebSocket
as long as a connect ends, see below). `AnswersEventually` states
its timers as a premise, so that the same run shows `CommitReleasesWaiter`
without them; `DeadIngestionExits` does the same with the grace timer.
`ShutdownEndsRun` relies neither on the abort of the task nor on the grace:
cancellation alone ends the run. `StreamEnds` assumes that the loop, the strides
and the enrichments in flight go on (each ends by its own budget), and that a
poll repeated for ever is answered now and then by a node that has the height
(strong fairness). `LastHeadConfirmed` assumes that the chain goes on becoming
final and that rounds repeated for ever are answered in full now and then;
without either nothing can be confirmed. The `ws` run assumes that calls are
polled, that timers fire and that a reader that ended goes on to reset its
connection; not that the server answers, nor that a connect ends, which
`connect_async` has no timeout for. `DrainEndsWaiters` needs no timer.
`RequestEnds` assumes that the clock advances and that a request to the server
ends, which the timeout of the HTTP transport ensures (over a WebSocket a connect
must end too). It is about one request alone: `client.rs` promises no fairness
between concurrent callers of `wait_for_rate`, and none is assumed or
shown. `readiness` has no fairness: its timers are due
in time and its properties bounded. Nothing is assumed of streams, which may be
silent for ever, of clients, or of the writer.

**Deadlock** is checked except where the subject ends or may be left: a response
(`backfill`), a stream (`range_ingest`), a request (`rpc_client`), the calls of an
instance (`ws`).

## Disagreements found

1. `stall_count`: the ladder counts a session as progress if the head is not at
   the height the session was opened above. After a fork rebase the base lies
   below the head, so a session that commits nothing resets the counter.
   `spec/04-mutations.md` (WP-9) counts a session that did not advance the head.
2. `ws_short`: `reset` bumps the generation before it takes the connection. A
   batch that obtained the handle earlier and samples the generation in between
   is drained by the take and finds the generation unchanged, so it reports a
   short batch response, which the comments of `send_batch` reserve for
   `fail_short_batches`.

Met while modelling and not given a run of their own; where a property would be
broken by one, it names the exception:

- `connect_async` (`ws.rs:230`) has no timeout, and the request timeout starts only
  after `get_active` (lines 601 and 615, 638 and 672). A peer that accepts the
  connection and never answers the upgrade holds the dial, and with it every
  caller, for ever. `spec/14-interface-binding.md` (IB-13) gives every call the
  timeout `P-RPC-TIMEOUT`. No property here says that every WebSocket call ends.
- A call that took its handle before the socket was lost may register on it
  (`ws.rs:658`) after the reader's reset drained it (lines 278-289). Nobody drains it
  again, so the call ends at its timeout and, where that is zero, never, while the
  comment of `effective_timeout` says that the socket's close or reset "still fails
  the request promptly". `DrainEndsWaiters` is about calls that waited before the
  drain.
- `is_unsigned` (`chain_utils.rs:235`) does not exempt bor's state-sync transaction,
  so with `verify_tx_sender` on a bor block that has one fails its header check in
  every round. `spec/13-conformance-tdd.md` (GAP-9) says that it is "excluded from
  the commitment that never covered it and from sender recovery", REQ-15 has such
  transactions tolerated, and the head of `chain_utils.rs` says what a missing
  exemption does. `HealsOnceSettled` names the case, and a setup of its run has it.
- Debug results asked for by number (`fetch.rs:1592`) name no block. Where two
  branches hold the same transactions at a height, the traces of the other branch
  are served with this block, while `spec/14-interface-binding.md` has trace results
  "reference the requested block". `ServedBelongs` asks for the branch of a trace
  only where it was asked for by hash or must name it.
- `run` does not reset the stall counter after a successful re-seed, while
  `spec/04-mutations.md` (T1) gives `stalled = 0` as its post-state: if the next
  session commits nothing either, the service re-seeds again at once.
- An eviction between the window check and the query gives an empty response
  without the finalized head, which `spec/05-queries.md` (RP-9) requires; the
  repository tracks it as GAP-30. `VerdictOfTheMoment` asks the watermark only of
  answers with blocks.
- The comment of `fresh_upstream_head` (`core/metrics.rs`) says that only a
  core-managed `get_head` refreshes the age of the view. The EVM source's poller
  and `get_height` call `observe_upstream_head` too, and may replace a higher
  head by a lower one. A stale node's answer can so end a stall that had not been
  alarmed yet; `StallAlarmed` counts only time in which the view was ahead. After
  a re-seed an old observation may be ahead of the new buffer, and the stall is
  counted from it; `AlarmEarned` allows for that.
- A signal that races the end of a failed run may be taken first by `main`'s
  unbiased `select`, and the process then exits 0. `ExitZeroIsClean` accepts an
  exit 0 for which a signal was sent.
- The stall alarm is set after the lock of the stall clock is released
  (`refresh_stall_alarm`), so an alarm found before a commit may be raised after
  it, also over the all-clear of a later evaluation. The next time unit's evaluation corrects it:
  `AlarmEarned` names the exception and `AlarmSilenced` bounds it.
- A transaction's hash is served as the node gave it: no root covers it and
  nothing compares it with the transaction. The same holds of all data outside
  every commitment (bor's state-sync transaction, for one). `ServedBelongs` states
  for each check what it covers.
- A failed probe of the block-receipts method fixes the per-transaction method
  for the life of the process.

## Proofs

`ChainBufferProofs` proves for every window size, moving or fixed, and for every
hash set, set of deliverable blocks, reports and seeds what the `buffer` run
checks: the completeness of the undo log, that finalized blocks are kept, the
window bound, that a rollback is traceless, and that `ChainBuffer` implements
`PublishedChain`; and besides these type correctness and the shape of the chain.
The assumptions are the named ones of `Chain` and `ChainBuffer`: a positive window
and reference span, inputs of their types, and a seed whose parent is not above
it (which `init` checks).

The argument rests on `BatchInvariant`. None of the properties is inductive
alone. That a batch cannot remove a finalized block needs the position at which
the search stops to be compared with a finalized position inside the chain, so
it needs the chain well formed; that a rollback restores needs the undo log to
lead, from the present blocks, to the blocks the batch began with:
`UndoLeadsTo(chain, orig, f)` says that the untouched prefix followed by the
removed blocks is the original sequence. `BatchInvariant` joins, per phase, well
formedness, that relation and the preservation of the finalized prefix since the
batch began. `ChainLemmas` has one lemma per operation (push, reorganise,
finalize, compact, roll back), so that each action of `ChainBuffer` is one short
step of the induction. Refinement needs one more fact per visible step:
compaction after a committed batch is a publication.

**The search.** `BisectPos` is the halving loop of `bisect`, as a function of the
width of the interval and of its lower end. `ChainLemmas!BisectFinds` shows that
for every linked buffer and every target it ends at the first block not below the
target. A recursive function is a `CHOOSE`, so two things have to be shown of it:
that such a function exists, and what it computes. Both are inductions, which the
library states with an operator as parameter that no prover here can instantiate;
they are done instead with `SetInduction` (a set that holds 0 and is closed under
successor holds every natural), itself derived from the well-foundedness of `<`.
The walk of `get_fork_base`, the fold over the blocks of a batch, and what a round
of the prober gives back are treated in the same way.

**Ingestion and the process** (`IngestionProofs`, for `ProcessSpec`). For every
source, that is for every set of batches, fork signals and seeds of their types:
the obligation of a finality report is honoured (`ObligationHonoured`), the walk
of `get_fork_base` finds what its reference definition says (`ForkBaseIsTarget`;
`WalkFindsTarget` says it of any buffer and any refs), the whole loop implements
`PublishedChain`, and exit 0 is earned. `IngestionInvariant` says that between
batches the chain is well formed with no batch open, that an obligation is
honoured where the session may go on, and that none survives into a pause or a
re-init. The last is what makes it inductive: a re-init replaces the buffer, and
an obligation left over would be held against blocks it never was about. Inside
a batch the argument is one over the fold of pushes: each keeps the chain well
formed, the finalized prefix, and an undo log that leads back. What a read of the
shared buffer sees of a batch is then a publication, a rollback or nothing.

**Backfill** (`BackfillProofs`). For every source, snapshot and base: the body is
one chain, and a body that ends without a truncation is whole. The invariant
follows the blocks on their way (`Flow`): from what was written, through the
channel, to what the producer is sending, each piece continues the last block
before it, and the last of all is the producer's `prev`. `SpliceChecked` adds
that a producer that ended under a reading response checked the splice or left an
error in the channel; without it a response that finds the channel closed could
not know that the snapshot fits.

**The prober** (`FinalityProberProofs`). For streams, channels and rounds of any
size every watermark is of a delivered final block. The call that answers a round
drops the probes above the finalized head, and the code pairs the answers with
the probes by position. So the theorem rests on an order that no single line
states: the heights under way ascend strictly from the probes of the round
through the queue to the channel that feeds it (`Ordered`), also when a full
channel drops offers, a full queue replaces its newest, a settlement takes from
the front and a failed or half-answered round gives probes back. The assumption
that an upstream does not hold a non-final block at a height it calls final is in
the model (`Answers`).

**The range stream** (`RangeIngestProofs`). For any range, stride size,
concurrency, depth of the pipeline and number of retries, on an upstream of two
branches with the fork anywhere: the stream is a chain of consecutive heights, a
fork names the height last delivered, and a fault leaves no gap. `StreamInvariant`
says that what the loop acquires next is what is due (`InPlace`), that the
strides in flight cut what follows into adjacent ranges (`StridesAdjoin`), that
each holds a run of its own heights from its lowest on (`StrideHolds`), and that
the hash `ensure_continuity` expects is that of the last block (`ExpectsLast`).
The same module proves of the finalized view, alone and beside the stream, that
it is of the present epoch, never falls within one, and that there is at most one
background fetch. `ViewIsOfEpoch` is inductive given the types; `OneRefresh`
needs that the flag is up while a fetch is in flight, and the types need that a
landed refresh holds an answer (`ViewInvariant`).

**The RPC client** (`RpcClientProofs`). For any number of calls, batch size,
permits, errors and retries, a request that succeeds gave every call its own
answer or its own error. The invariant is that no call of a begun chunk is lost:
it is settled, in some job, or in a chunk that failed as a whole, and jobs stay
within their chunks however they are split.

**The rate** (same module). For any slot width, window length and limit, no
stretch of a window's length lets more calls through than the limit. The code
counts by slots and the property by ticks, and a stretch of ticks begins and ends
inside slots. `Metered` ties the two together: for every k up to the window's
length, the last k ticks let through no more than the ring holds from the slot of
the oldest of them on. It is stated for every k because a tick turns the last k
ticks into the last k + 1. A reservation keeps it because the slots it empties are
a whole ring older than those it adds to, so their residues differ within the
window; and what it is admitted by, `get_rate`, covers the slot of the oldest tick
because the ring has one slot more than the window (the mutant `GetRateShort`
takes it away). The theorem also needs that no job is without calls
(`JobsHaveCalls`). The community modules define a sum over a set by an iteration
that chooses elements; that the iteration exists, that the order does not matter
and that sums are monotone is proved from that definition.

**The WebSocket** (same module). For any calls, ids and number of dials: a
server that answers what it was asked is never taken for a corrupt one. The
invariant accounts, on every handle that no reset drained, for each id the server
owes an answer to (it has its sender) and each id a waiting call is still without
(received or registered). That waiters end is liveness and stays with TLC.

**Queries** (`ServingProofs`). For every set of buffers the writer may publish,
every request and every reach of the refs of a conflict: the verdict is that of
the buffer of the moment it is given, and a conflict's refs ascend, are of that
buffer and are each accepted when the client resumes above them. That the request
took other locks before does not matter to the proof, and this is the point: the
last lock decides alone. The invariant is only that what is published is linked,
not empty and has a finalized block; the work is in what `query` computes. A
request is resolved by the halving search, so `BisectFinds` is used for the
position of its first block; `ParentRefsAre` describes the list of parent refs
position by position, roots left out; `BlockResumable` and `ParentResumable` show
that a resume above any of them is no conflict.

**Readiness** (`ServingProofs`). For every bound and any number of evaluators: the
alarm is on once the view was ahead for the bound without a commit, it goes up
only over a stall or by a verdict that a commit overtook, a commit silences it by
the end of the next time unit, and ready is claimed only of a head that was heard.
`ReadinessInv` relates the code's clocks to the histories the properties are about.
While the view is watched ahead, no sample in hand says otherwise
(`WatchIsAhead`), the clock's two ages keep up with the watch but for the time unit
before the first evaluation (`WatchedAges`), a verdict in hand at the bound is of a
stall (`VerdictsWatched`), and once one was published there the alarm is on
(`WatchedAlarms`): without the samples in hand it would not be
inductive, as an evaluator could clear the clock with a view it copied before. For
the other direction an age the clock or a sample holds is excused by a re-seed, by
a commit or by the upstream not having been ahead longer (`BehindIsReal`,
`LevelIsReal`), and the clock counts as consulted from the verdict on, not from its
publication (`Judged`). A verdict in hand still rests on what it was given for, or a
commit of this time unit overtook it (`VerdictsEarned`); from it follows how long
the alarm may stand over a commit (`AlarmFades`). `FreshIsHeard` says that a fresh view is as old as the last answer
heard and not below it, since batches only raise its number, and `ProbeHeard`
carries that to the probe in hand.

**Assumptions.** Besides the typing of constants and positive sizes the theorems
assume only the named assumptions of the modules: seeds whose parent is not above
them (`init` checks it), snapshots that are linked and not empty (a query returns
nothing else), a source that yields blocks (in any order, linked or not),
distinct ids for distinct calls (the counter of `client.rs`), published buffers
whose first block has no parent above it (`map_raw_block` subtracts one,
saturating), a stall bound of at least four time units (the observer's interval is
half of it and its timeout a quarter of that), and markers (`None`, `NoBlock`,
`NoHash`, `NoHead`, `NoView`) that are not values. TLC evaluates each on the instances.

**Only model-checked.** Everything under fairness, and with it every property
stated with `~>` or `<>`, which is beyond the prover. `ServedBelongs`,
`TraceTreeKept` and `HealsOnceSettled` of `Enrichment`: what they say is decided by
the data of an instance (which field a commitment covers on which network, what
two concrete branches hold), built with `SelectSeq`, `FlattenSeq` and
`SetToSortSeq`, of which the provers know nothing, and compared as whole records.
The model checker enumerates that data; a proof would have to restate it.

## Not modelled

- The formatting and compression of responses, logs (with the capture made when
  the stall alarm flips), counters and gauges, and
  the block-time cache of `metrics.rs`, which nothing but a display reads.
- The bytes of encodings, hash functions, tries and signatures (see
  **Commitments**), and the field-by-field copies of normalization.
- The cadence predictor: it only decides when to poll, and polls may come at any
  time here.
- The read-only HTTP routes but `/stream` and readiness: each reads one level.
- The parsing of command-line arguments.
- The harness and the benchmarks: they observe the service from outside.

## Plan

All modules of the plan are written, and every safety property a run checks is a
theorem but the three of `Enrichment`. What could still be added there is a theory
of the sequences it uses (order and membership of a flattened call tree), from
which `TraceTreeKept` would follow for trees of any depth.
