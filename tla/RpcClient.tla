------------------------------ MODULE RpcClient ------------------------------
(***************************************************************************)
(* One batched request of the RPC client (client.rs) over the HTTP         *)
(* transport: the calls are cut into chunks, the chunks run side by side   *)
(* under a rate and a number of permits, a failed batch is retried whole   *)
(* or split in half down to single calls, and the results come back in     *)
(* the order of the calls.  The server and the clock are external.         *)
(***************************************************************************)
EXTENDS RateMeter, Sequences

CONSTANTS
  CallCount,       \* calls of the request
  Configs,         \* configurations to construct a client from
  Errors,          \* errors a request may meet, of the names below
  RetryAttempts,
  MaxLatency,      \* bounds the clock while an answer is awaited
  MaxClock,        \* bounds it while the rate is; no admissible request waits so long
  Unanswered, CallFailed

ASSUME ConfigsAssumption ==
  Configs \subseteq [capacity : Nat, max_batch : Nat, per_window : Nat, internal : BOOLEAN]
ASSUME RequestAssumption == CallCount \in Nat \ {0} /\ RetryAttempts \in Nat /\ {MaxLatency, MaxClock} \subseteq Nat

VARIABLES
  config,     \* of the client: capacity, max_batch, per_window, internal
  meter,      \* RateState
  clock,
  recent,     \* reservations of the last WindowSize * SlotTime ticks, newest first
  started,    \* chunks begun
  taken,      \* chunks whose results the request collected
  jobs,       \* runs of calls being made: a chunk, or part of one
  results,    \* per call: Unanswered, an error, or the call an answer was for
  broken,     \* chunks that ended with an error of the whole
  outcome     \* none, ok, failed, dropped

vars == <<config, meter, clock, recent, started, taken, jobs, results, broken, outcome>>

-----------------------------------------------------------------------------
(* try_new: a client is built only when its batches fit its window.        *)

(* Mutant: a batch may exceed what the window admits.                      *)
TryNewUnfit(c) == c.capacity > 0 /\ c.per_window > 0 /\ c.max_batch > 0

TryNew(c) ==
  /\ c.capacity > 0
  /\ c.per_window > 0
  /\ c.max_batch > 0
  /\ c.max_batch <= c.per_window

(* split_calls.                                                            *)
Indices == 1 .. CallCount
ChunkCount == (CallCount + config.max_batch - 1) \div config.max_batch
ChunkEnd(k) == LET e == k * config.max_batch IN IF e < CallCount THEN e ELSE CallCount
Job(k, lo, hi) == [chunk |-> k, lo |-> lo, hi |-> hi, attempt |-> 0, pc |-> "rate"]
Size(j) == j.hi - j.lo + 1

Init ==
  /\ config \in {c \in Configs : TryNew(c)}
  /\ meter = NewMeter /\ clock = 0
  /\ recent = [i \in 1 .. WindowSize * SlotTime |-> 0]
  /\ started = 0 /\ taken = 0 /\ jobs = {}
  /\ results = [i \in Indices |-> Unanswered]
  /\ broken = {} /\ outcome = "none"

-----------------------------------------------------------------------------
(* error.rs: what the retry ladders make of an error.                      *)

IsRetryable(e) ==
  \/ e \in {"timeout", "connection", "retry_requested", "busy_status", "rate_limited"}
  \/ config.internal /\ e \in {"internal", "internal_too_large"}

IsBatchShape(e) == e \in {"protocol", "too_large", "internal_too_large"}

IsRetryableBatch(e) == IsRetryable(e) \/ IsBatchShape(e) \/ e = "internal"

IsRetryableBatchOnly(e) == IsRetryableBatch(e) /\ ~IsRetryable(e)

-----------------------------------------------------------------------------
(* Chunks are begun in order, at most batch_concurrency beyond the ones    *)
(* collected.                                                              *)
StartChunk ==
  /\ outcome = "none"
  /\ started < ChunkCount /\ started - taken < config.capacity
  /\ started' = started + 1
  /\ jobs' = jobs \cup {Job(started + 1, started * config.max_batch + 1, ChunkEnd(started + 1))}
  /\ UNCHANGED <<config, meter, clock, recent, taken, results, broken, outcome>>

Advance(j, pc) == jobs' = (jobs \ {j}) \cup {[j EXCEPT !.pc = pc]}

Admits(count) == GetRate(meter, clock) + count <= config.per_window

(* wait_for_rate: the reservation is made under the lock.                  *)
Reserve(j) ==
  /\ j.pc = "rate" /\ Admits(Size(j))
  /\ meter' = Inc(meter, Size(j), clock)
  /\ recent' = [recent EXCEPT ![1] = @ + Size(j)]
  /\ Advance(j, "permit")
  /\ UNCHANGED <<config, clock, started, taken, results, broken, outcome>>

InFlight == {j \in jobs : j.pc = "sent"}

AcquirePermit(j) ==
  /\ j.pc = "permit" /\ Cardinality(InFlight) < config.capacity
  /\ Advance(j, "sent")
  /\ UNCHANGED <<config, meter, clock, recent, started, taken, results, broken, outcome>>

-----------------------------------------------------------------------------
(* What the transport makes of an answer.  Ids run from base_id in the     *)
(* order of the calls, so they are the calls here.                         *)

(* Mutant: answers are taken in the order they come.                       *)
InOrder(j, ids) == [i \in j.lo .. j.hi |-> ids[i - j.lo + 1]]

(* send_batch: the answers by id.                                          *)
Ordered(j, ids) == [i \in j.lo .. j.hi |-> CHOOSE x \in {ids[k] : k \in DOMAIN ids} : x = i]

Complete(j, ids) == Len(ids) = Size(j) /\ \A i \in j.lo .. j.hi : \E k \in DOMAIN ids : ids[k] = i

(* The answers arrive, each a value or an error of its own, which no       *)
(* ladder retries.                                                         *)
AnswerBatch(j, ids) ==
  /\ j.pc = "sent" /\ Size(j) > 1 /\ Complete(j, ids)
  /\ LET answers == Ordered(j, ids)
     IN results' = [i \in Indices |-> IF i \in j.lo .. j.hi THEN answers[i] ELSE results[i]]
  /\ jobs' = jobs \ {j}
  /\ UNCHANGED <<config, meter, clock, recent, started, taken, broken, outcome>>

AnswerSingle(j) ==
  /\ j.pc = "sent" /\ Size(j) = 1
  /\ results' = [results EXCEPT ![j.lo] = j.lo]
  /\ jobs' = jobs \ {j}
  /\ UNCHANGED <<config, meter, clock, recent, started, taken, broken, outcome>>

-----------------------------------------------------------------------------
(* The retry ladders.                                                      *)

Retries(j, e) == j.attempt < RetryAttempts /\ IsRetryable(e)

Again(j) == [j EXCEPT !.pc = "rate", !.attempt = @ + 1]

(* call_with_options: the last error is the call's result.                 *)
FailSingle(j, e) ==
  /\ j.pc = "sent" /\ Size(j) = 1
  /\ IF Retries(j, e)
       THEN jobs' = (jobs \ {j}) \cup {Again(j)} /\ UNCHANGED results
       ELSE jobs' = jobs \ {j} /\ results' = [results EXCEPT ![j.lo] = CallFailed]
  /\ UNCHANGED <<config, meter, clock, recent, started, taken, broken, outcome>>

Mid(j) == j.lo + ((Size(j) + 1) \div 2) - 1
Halves(j) == {Job(j.chunk, j.lo, Mid(j)), Job(j.chunk, Mid(j) + 1, j.hi)}

(* reduce_batch: shape is split, the retryable is retried whole and then,  *)
(* if only a smaller batch may succeed, split; anything else fails it.     *)
FailBatch(j, e) ==
  /\ j.pc = "sent" /\ Size(j) > 1
  /\ LET splits == IsBatchShape(e) \/ (~Retries(j, e) /\ IsRetryableBatchOnly(e))
     IN /\ jobs' = (jobs \ {j}) \cup (IF splits THEN Halves(j) ELSE IF Retries(j, e) THEN {Again(j)} ELSE {})
        /\ broken' = IF splits \/ Retries(j, e) THEN broken ELSE broken \cup {j.chunk}
  /\ UNCHANGED <<config, meter, clock, recent, started, taken, results, outcome>>

-----------------------------------------------------------------------------
(* Chunks are collected in order; the first broken one ends the request    *)
(* and drops what still runs.                                              *)
Finished(k) == k <= started /\ \A j \in jobs : j.chunk # k

CollectChunk ==
  /\ outcome = "none" /\ taken < ChunkCount /\ Finished(taken + 1)
  /\ IF taken + 1 \in broken
       THEN outcome' = "failed" /\ jobs' = {} /\ UNCHANGED taken
       ELSE /\ taken' = taken + 1
            /\ outcome' = IF taken + 1 = ChunkCount THEN "ok" ELSE outcome
            /\ UNCHANGED jobs
  /\ UNCHANGED <<config, meter, clock, recent, started, results, broken>>

(* The caller is dropped: permits return, reservations stay spent.         *)
DropRequest ==
  /\ outcome = "none"
  /\ outcome' = "dropped" /\ jobs' = {}
  /\ UNCHANGED <<config, meter, clock, recent, started, taken, results, broken>>

Blocked == \E j \in jobs : j.pc = "rate" /\ ~Admits(Size(j))

Tick ==
  /\ outcome = "none"
  /\ \/ Blocked /\ clock < MaxClock
     \/ InFlight # {} /\ clock < MaxLatency
  /\ clock' = clock + 1
  /\ recent' = [i \in DOMAIN recent |-> IF i = 1 THEN 0 ELSE recent[i - 1]]
  /\ UNCHANGED <<config, meter, started, taken, jobs, results, broken, outcome>>

-----------------------------------------------------------------------------
(* A batch answer is any sequence of ids, right or wrong; a wrong one is a *)
(* protocol error, among Errors.                                           *)
Answers(j) == IF Size(j) = 1 THEN {} ELSE [1 .. Size(j) -> j.lo .. j.hi]

Server(j) ==
  \/ AnswerSingle(j)
  \/ \E ids \in Answers(j) : AnswerBatch(j, ids)
  \/ \E e \in Errors : FailSingle(j, e) \/ FailBatch(j, e)

Client ==
  \/ StartChunk \/ CollectChunk
  \/ \E j \in jobs : Reserve(j) \/ AcquirePermit(j)

Next == Client \/ (\E j \in jobs : Server(j)) \/ Tick \/ DropRequest

(* Tasks run, every request is answered or times out, and time passes.     *)
Spec ==
  /\ Init /\ [][Next]_vars
  /\ WF_vars(Client) /\ WF_vars(\E j \in jobs : Server(j)) /\ WF_vars(Tick)

-----------------------------------------------------------------------------
(* Properties.                                                             *)

(* A request that succeeds answers every call once and each with the       *)
(* answer to its own id, however it was cut, split, retried and however    *)
(* the server ordered its answers.                                         *)
OwnAnswers == outcome = "ok" => \A i \in Indices : results[i] \in {i, CallFailed}

(* In no stretch of one window's length are more calls let through than    *)
(* the limit allows, wherever in its slot each reservation fell.           *)
WindowNeverExceeded ==
  MapThenSumSet(LAMBDA i : recent[i], DOMAIN recent) <= config.per_window

(* Retries and splits end: every request returns, and no batch waits for   *)
(* a rate that can never admit it.                                         *)
RequestEnds == <>(outcome # "none")
=============================================================================
