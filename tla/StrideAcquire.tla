---------------------------- MODULE StrideAcquire ----------------------------
(***************************************************************************)
(* acquire_range_stride of ingest.rs: one batched request for a run of     *)
(* heights, then the whole acquisition again for each height whose answer  *)
(* is missing or incoherent, a bounded number of times.  Any read may be   *)
(* answered by a node on either branch of the chain; below ForkAt the      *)
(* branches share their blocks.                                            *)
(***************************************************************************)
EXTENDS FiniteSetsExt, SequencesExt, Integers

CONSTANTS
  ForkAt,          \* the first height the two branches differ at
  EnrichRetries    \* P_ENRICH_RETRIES

ASSUME RetriesAssumption == EnrichRetries \in Nat

Branches == {0, 1}
Hash(n, b) == <<n, IF n >= ForkAt THEN b ELSE 0>>
Block(n, b) == [number |-> n, hash |-> Hash(n, b), parent |-> Hash(n - 1, b)]
BlocksAt(n) == {Block(n, b) : b \in Branches}

(* An answered block, and whether a check marked it invalid.               *)
Candidate(blk, bad) == [blk |-> blk, is_invalid |-> bad]
CandidatesAt(n) == {Candidate(blk, bad) : blk \in BlocksAt(n), bad \in BOOLEAN}

(* get_block_batch: the answers up to the first null, unlinked block, or   *)
(* one without a header.  At most one of them is invalid.                  *)
BatchAnswers(lo, hi) ==
  {<< >>} \cup
  {[i \in 1 .. k |-> Candidate(Block(lo + i - 1, b), i = bad)] :
     k \in 1 .. hi - lo + 1, b \in Branches, bad \in 0 .. hi - lo + 1}

-----------------------------------------------------------------------------
Stride(lo, hi) ==
  [lo |-> lo, hi |-> hi, pc |-> "asked", complete |-> << >>, initial |-> << >>, retries |-> 0]

Wanted(s) == s.lo + Len(s.complete)

(* range_candidate_issue finds nothing to say of c at height n.            *)
Coherent(c, n, complete) ==
  /\ c.blk.number = n
  /\ ~c.is_invalid
  /\ complete # << >> => Last(complete).hash = c.blk.parent

BlocksOf(cs) == [i \in DOMAIN cs |-> cs[i].blk]

(* How many of the initial answers are coherent with what is complete.     *)
CoherentPrefix(s) ==
  Max({k \in 0 .. Len(s.initial) :
         \A i \in 1 .. k :
           Coherent(s.initial[i], Wanted(s) + i - 1, s.complete \o BlocksOf(SubSeq(s.initial, 1, i - 1)))})

Failed(s) == [s EXCEPT !.pc = "failed", !.initial = << >>]

(* The candidate at the wanted height will not do: spend a retry on it.    *)
Reacquire(s) ==
  IF s.retries >= EnrichRetries THEN Failed(s)
  ELSE [s EXCEPT !.pc = "refetch", !.retries = @ + 1]

(* Take what is coherent; the answer after it, or its absence, is the one  *)
(* to acquire again.                                                       *)
Proceed(s) ==
  LET k == CoherentPrefix(s)
      t == [s EXCEPT !.complete = @ \o BlocksOf(SubSeq(s.initial, 1, k)),
                     !.initial = SubSeq(@, k + 2, Len(@)), !.retries = 0]
  IN IF Wanted(t) > s.hi THEN [t EXCEPT !.pc = "ok"] ELSE Reacquire(t)

(* The answer to the batched request.                                      *)
Answered(s) == {Proceed([s EXCEPT !.initial = ans]) : ans \in BatchAnswers(s.lo, s.hi)} \cup {Failed(s)}

(* The answer to the request for one height: nothing, a candidate, or an   *)
(* error, which is not retried.                                            *)
Refetched(s) ==
  {Failed(s), Reacquire(s)} \cup
  {IF Coherent(c, Wanted(s), s.complete) THEN Proceed([s EXCEPT !.complete = Append(@, c.blk)])
   ELSE Reacquire(s) : c \in CandidatesAt(Wanted(s))}

(* The task's next step.                                                   *)
Steps(s) ==
  CASE s.pc = "asked" -> Answered(s)
    [] s.pc = "refetch" -> Refetched(s)
    [] OTHER -> {}

Settled(s) == s.pc \in {"ok", "failed"}
=============================================================================
