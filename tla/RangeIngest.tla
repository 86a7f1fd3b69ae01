----------------------------- MODULE RangeIngest -----------------------------
(***************************************************************************)
(* ingest_range of ingest.rs under ensure_continuity of source.rs: one     *)
(* stream of blocks From .. To, beside the finalized view it reads.        *)
(*                                                                         *)
(* Below the finalized hint whole strides are acquired side by side and    *)
(* yielded in order.  Above it the head stream polls for one height at a   *)
(* time, enriches up to PipelineDepth blocks side by side and yields them  *)
(* in order; the finalized stream polls the finalized head and acquires    *)
(* one stride at a time.  The upstream is external: any read may come      *)
(* from a node that lags, fails, or is on the other branch.                *)
(***************************************************************************)
EXTENDS FinalityView, StrideAcquire

CONSTANTS
  From, To,            \* the requested range
  StrideSize, StrideConcurrency,
  PipelineDepth,
  NoNum, NoHash        \* None

ASSUME RangeAssumption == From \in Nat \ {0} /\ To \in Nat
ASSUME SizesAssumption == {StrideSize, StrideConcurrency, PipelineDepth} \subseteq Nat \ {0}
ASSUME NoHashAssumption == \A n \in From - 1 .. To, b \in Branches : Hash(n, b) # NoHash

VARIABLES
  session,    \* commitment, loop position, counters of the poll modes
  ranges,     \* the heights of the backfill not yet spawned: from, top and the report
  strides,    \* the stride tasks in flight, in order
  enriching,  \* the head blocks being enriched, in order
  expected,   \* ensure_continuity's expected parent
  delivered   \* what the stream yielded

sessionVars == <<session, ranges, strides, enriching, expected, delivered>>
allVars == <<vars, sessionVars>>

(* at is where the loop stands, or how the stream ended; fault the height  *)
(* an error names.                                                         *)
Opened(c) ==
  [commitment |-> c, at |-> "top", beg |-> From, next |-> NoNum, hot_streak |-> 0,
   incoherent |-> 0, poll_head |-> NoNum, poll_last_read |-> NoNum, fault |-> NoNum]
NoRanges == [from |-> 0, top |-> -1]
NoSession == [Opened("none") EXCEPT !.at = "closed"]
Ends_ == {"done", "fault", "error", "fork"}

IngestInit ==
  /\ \/ /\ session \in {Opened("latest"), Opened("finalized")}
        /\ expected \in {NoHash, Hash(From - 1, 0)}
        /\ \E h \in Heads : observed = [head |-> h, fresh |-> TRUE, asked |-> 0]
     \/ /\ session = NoSession /\ expected = NoHash
        /\ observed = NoView
  /\ refreshing = FALSE /\ epoch = 0 /\ task = [t \in Tasks |-> Idle]
  /\ ranges = NoRanges /\ strides = << >> /\ enriching = << >> /\ delivered = << >>

-----------------------------------------------------------------------------
(* ensure_continuity.                                                      *)

Linked(prev, blk) == prev = NoHash \/ prev = blk.parent
PrevHash(blocks, i) == IF i = 1 THEN expected ELSE blocks[i - 1].hash

(* Mutant: the first block of a batch is not compared.                     *)
ForkPosWithin(blocks) ==
  Min({i \in DOMAIN blocks \ {1} : ~Linked(PrevHash(blocks, i), blocks[i])} \cup {Len(blocks) + 1})

(* The first block of the batch that does not link, or one past its end.   *)
ForkPos(blocks) ==
  Min({i \in DOMAIN blocks : ~Linked(PrevHash(blocks, i), blocks[i])} \cup {Len(blocks) + 1})

(* Yield a batch: what links, and the end of the stream where it does not. *)
Yield(blocks, s) ==
  LET k == ForkPos(blocks) - 1
  IN /\ delivered' = delivered \o SubSeq(blocks, 1, k)
     /\ expected' = IF k = 0 THEN expected ELSE blocks[k].hash
     /\ session' = IF k = Len(blocks) THEN s
                   ELSE [s EXCEPT !.at = "fork", !.fault = blocks[k + 1].number - 1]

Fails(how, n) ==
  /\ session' = [session EXCEPT !.at = how, !.fault = n]
  /\ UNCHANGED <<expected, delivered>>

-----------------------------------------------------------------------------
(* The loop's top: the hint decides how the next blocks are acquired.      *)

Hint == IF observed = NoView THEN NoNum ELSE observed.head.number
Lower(a, b) == IF a <= b THEN a ELSE b

Top == IF Hint = NoNum THEN session.beg ELSE Lower(Hint, To)

StrideEnd(start, top) == Lower(start + StrideSize - 1, top)

(* The strides that fit beside those in flight.                            *)
Spawn(r, room) ==
  LET start(i) == r.from + (i - 1) * StrideSize
  IN [i \in {j \in 1 .. room : start(j) <= r.top} |-> Stride(start(i), StrideEnd(start(i), r.top))]

AfterSpawn(r, n) == [r EXCEPT !.from = @ + n * StrideSize]

RefreshBeside ==
  IF session.beg > From /\ ~refreshing /\ ~Fresh THEN \E t \in Tasks : BeginRefresh(t)
  ELSE UNCHANGED vars

AtTop == session.at = "top" /\ session.beg <= To
Far == Top > session.beg /\ Top - session.beg > StrideSize

StartBackfill ==
  /\ AtTop /\ Far
  /\ RefreshBeside
  /\ LET r == [from |-> session.beg, top |-> Top]
         first == Spawn(r, StrideConcurrency)
     IN strides' = first /\ ranges' = AfterSpawn(r, Len(first))
  /\ session' = [session EXCEPT !.at = "backfill", !.next = NoNum,
                                !.poll_head = NoNum, !.poll_last_read = NoNum]
  /\ UNCHANGED <<enriching, expected, delivered>>

StartPolling ==
  /\ AtTop /\ ~Far /\ session.commitment = "latest"
  /\ RefreshBeside
  /\ session' = [session EXCEPT !.at = "latest", !.next = session.beg,
                                !.hot_streak = 0, !.incoherent = 0]
  /\ UNCHANGED <<ranges, strides, enriching, expected, delivered>>

PollStride(s, head) == <<Stride(s.beg, Lower(s.beg + StrideSize, Lower(head, To)))>>

HeadKnown ==
  session.poll_last_read # NoNum /\ session.poll_head # NoNum /\ session.poll_last_read < session.poll_head

PollFinalized ==
  /\ AtTop /\ ~Far /\ session.commitment = "finalized"
  /\ RefreshBeside
  /\ IF HeadKnown
       THEN /\ session' = [session EXCEPT !.at = "poll"]
            /\ strides' = PollStride(session, session.poll_head)
       ELSE session' = [session EXCEPT !.at = "head"] /\ UNCHANGED strides
  /\ UNCHANGED <<ranges, enriching, expected, delivered>>

RangeDone ==
  /\ session.at = "top" /\ session.beg > To
  /\ session' = [session EXCEPT !.at = "done"]
  /\ UNCHANGED <<vars, ranges, strides, enriching, expected, delivered>>

-----------------------------------------------------------------------------
(* Strides.                                                                *)

(* A stride task runs to its end whether or not it is awaited.             *)
StrideStep(i) ==
  /\ i \in DOMAIN strides
  /\ \E s \in Steps(strides[i]) : strides' = [strides EXCEPT ![i] = s]
  /\ UNCHANGED <<vars, session, ranges, enriching, expected, delivered>>

(* Mutant: a fault drops the complete blocks below it.                     *)
AcquiredWhole(s, then) ==
  IF s.pc = "failed" THEN Fails("fault", Wanted(s))
  ELSE Yield(s.complete, [then EXCEPT !.beg = Last(s.complete).number + 1])

(* The acquired prefix is mapped and yielded, then the fault below it ends *)
(* the stream.                                                             *)
Acquired(s, then) ==
  LET last == Last(s.complete).number
      advanced == [then EXCEPT !.beg = last + 1]
  IN IF s.complete = << >> THEN Fails("fault", s.lo)
     ELSE \/ Fails("error", NoNum)
          \/ Yield(s.complete, IF s.pc = "failed"
                                 THEN [advanced EXCEPT !.at = "fault", !.fault = last + 1]
                                 ELSE advanced)

(* Mutant: whichever stride is complete is yielded.                        *)
TakeAnyStride ==
  /\ session.at = "backfill"
  /\ \E i \in DOMAIN strides :
       /\ Settled(strides[i])
       /\ LET more == Spawn(ranges, 1)
          IN strides' = RemoveAt(strides, i) \o more /\ ranges' = AfterSpawn(ranges, Len(more))
       /\ Acquired(strides[i], session)
  /\ UNCHANGED <<vars, enriching>>

(* The front task is joined and the next range takes its place.            *)
TakeStride ==
  /\ session.at = "backfill"
  /\ strides # << >> /\ Settled(Head(strides))
  /\ LET more == Spawn(ranges, 1)
     IN strides' = Tail(strides) \o more /\ ranges' = AfterSpawn(ranges, Len(more))
  /\ Acquired(Head(strides), session)
  /\ UNCHANGED <<vars, enriching>>

BackfillOver ==
  /\ session.at = "backfill" /\ strides = << >>
  /\ session' = [session EXCEPT !.at = "top"]
  /\ ranges' = NoRanges
  /\ UNCHANGED <<vars, strides, enriching, expected, delivered>>

-----------------------------------------------------------------------------
(* The finalized stream above the hint.                                    *)

HeadAnswer(h) ==
  /\ session.at = "head"
  /\ IF session.poll_last_read # NoNum /\ h <= session.poll_last_read
       THEN session' = [session EXCEPT !.at = "top"] /\ UNCHANGED strides
     ELSE IF h < session.beg
       THEN session' = [session EXCEPT !.at = "top", !.poll_head = h] /\ UNCHANGED strides
     ELSE /\ session' = [session EXCEPT !.at = "poll", !.poll_head = h]
          /\ strides' = PollStride(session, h)
  /\ UNCHANGED <<vars, ranges, enriching, expected, delivered>>

HeadFails ==
  /\ session.at = "head"
  /\ Fails("error", NoNum)
  /\ UNCHANGED <<vars, ranges, strides, enriching>>

TakePolled ==
  /\ session.at = "poll"
  /\ Settled(Head(strides))
  /\ LET s == Head(strides)
     IN Acquired(s, [session EXCEPT !.at = "top",
                       !.poll_last_read = IF s.complete = << >> THEN @ ELSE Last(s.complete).number])
  /\ strides' = << >>
  /\ UNCHANGED <<vars, ranges, enriching>>

-----------------------------------------------------------------------------
(* The head stream above the hint.                                         *)

Polling == session.at = "latest"
Exhausted == session.next > To \/ session.hot_streak > 2 * StrideSize
MustDrain == Len(enriching) >= PipelineDepth \/ Exhausted

(* An enrichment ends, with the block it was given or, its header          *)
(* contested, with the one then answered for; or it fails.                 *)
EnrichEnds(i) ==
  /\ i \in DOMAIN enriching /\ enriching[i].pc = "runs"
  /\ \/ \E blk \in BlocksAt(enriching[i].blk.number) :
          enriching' = [enriching EXCEPT ![i] = [pc |-> "ok", blk |-> blk]]
     \/ enriching' = [enriching EXCEPT ![i].pc = "failed"]
  /\ UNCHANGED <<vars, session, ranges, strides, expected, delivered>>

(* Join the front of the pipeline.                                         *)
Drain(s) ==
  /\ enriching # << >> /\ Head(enriching).pc # "runs"
  /\ enriching' = Tail(enriching)
  /\ IF Head(enriching).pc = "ok" THEN Yield(<<Head(enriching).blk>>, s) ELSE Fails("error", NoNum)

DrainFront ==
  /\ Polling /\ MustDrain
  /\ Drain(session)
  /\ UNCHANGED <<vars, ranges, strides>>

(* Mutant: a long streak stops the polling but not the loop.               *)
LeaveAtEnd ==
  /\ Polling /\ session.next > To /\ enriching = << >>
  /\ session' = [session EXCEPT !.at = "top", !.beg = session.next]
  /\ UNCHANGED <<vars, ranges, strides, enriching, expected, delivered>>

LeavePolling ==
  /\ Polling /\ Exhausted /\ enriching = << >>
  /\ session' = [session EXCEPT !.at = "top", !.beg = session.next]
  /\ UNCHANGED <<vars, ranges, strides, enriching, expected, delivered>>

MayPoll == Polling /\ ~MustDrain

PollHit(b) ==
  /\ MayPoll
  /\ enriching' = Append(enriching, [pc |-> "runs", blk |-> Block(session.next, b)])
  /\ session' = [session EXCEPT !.next = @ + 1, !.hot_streak = @ + 1, !.incoherent = 0]
  /\ UNCHANGED <<vars, ranges, strides, expected, delivered>>

(* Not produced yet.  A front task that is done is drained while waiting.  *)
PollNull ==
  /\ MayPoll
  /\ LET s == [session EXCEPT !.hot_streak = 0]
     IN IF enriching # << >> /\ Head(enriching).pc # "runs" THEN Drain(s)
        ELSE session' = s /\ UNCHANGED <<enriching, expected, delivered>>
  /\ UNCHANGED <<vars, ranges, strides>>

(* The block contradicts itself: a bounded number of times.                *)
PollIncoherent ==
  /\ MayPoll
  /\ session' = IF session.incoherent >= EnrichRetries THEN [session EXCEPT !.at = "failing", !.hot_streak = 0]
                ELSE [session EXCEPT !.incoherent = @ + 1, !.hot_streak = 0]
  /\ UNCHANGED <<vars, ranges, strides, enriching, expected, delivered>>

(* Before the failure surfaces, what is in flight below it is delivered,   *)
(* up to the first that fails itself.                                      *)
DrainFailing ==
  /\ session.at = "failing"
  /\ Drain(session)
  /\ UNCHANGED <<vars, ranges, strides>>

FailIncoherent ==
  /\ session.at = "failing" /\ enriching = << >>
  /\ Fails("fault", session.next)
  /\ UNCHANGED <<vars, ranges, strides, enriching>>

PollFails ==
  /\ MayPoll
  /\ Fails("error", NoNum)
  /\ UNCHANGED <<vars, ranges, strides, enriching>>

-----------------------------------------------------------------------------
(* The stream is dropped, after its end or at any time: the strides in     *)
(* flight are aborted.  The refresh it began runs on.                      *)
Close ==
  /\ session.at # "closed"
  /\ session' = NoSession
  /\ ranges' = NoRanges /\ strides' = << >> /\ enriching' = << >>
  /\ expected' = NoHash /\ delivered' = << >>
  /\ UNCHANGED vars

(* A seed is read when no stream is open.  The prober beside an open one   *)
(* writes the view as a refresh does, and is left to the closed phase.     *)
ViewStep ==
  /\ UNCHANGED sessionVars
  /\ \/ \E t \in Tasks : RefreshStored(t) \/ (FetchEnds(t) /\ (session.at = "closed" \/ Runs(t, "refresh", "fetching")))
     \/ TtlPasses
     \/ /\ session.at = "closed"
        /\ \E t \in Tasks : BeginResync(t) \/ CacheMiss(t) \/ AskForHead(t) \/ BeginRefresh(t)

HeadPolled == \E h \in Heads : HeadAnswer(h.number)
PolledHit == \E b \in Branches : PollHit(b)

Loop ==
  \/ StartBackfill \/ StartPolling \/ PollFinalized \/ RangeDone
  \/ TakeStride \/ BackfillOver \/ TakePolled
  \/ DrainFront \/ LeavePolling \/ DrainFailing \/ FailIncoherent

IngestNext ==
  \/ Loop
  \/ \E i \in 1 .. StrideConcurrency : StrideStep(i)
  \/ \E i \in 1 .. PipelineDepth : EnrichEnds(i)
  \/ HeadPolled \/ HeadFails \/ PolledHit \/ PollNull \/ PollIncoherent \/ PollFails
  \/ Close \/ ViewStep

(* Every task runs and every call returns; a height that exists is at last *)
(* answered with a block, a finalized head at last reaches To.             *)
IngestFairness ==
  /\ WF_allVars(Loop)
  /\ WF_allVars(\E i \in 1 .. StrideConcurrency : StrideStep(i))
  /\ WF_allVars(\E i \in 1 .. PipelineDepth : EnrichEnds(i))
  /\ SF_allVars(PolledHit \/ HeadAnswer(To))
  /\ \A t \in Tasks : WF_vars(FetchEnds(t) \/ RefreshStored(t))

IngestSpec == IngestInit /\ [][IngestNext]_allVars /\ IngestFairness

-----------------------------------------------------------------------------
(* Properties.                                                             *)

(* Whatever order strides and enrichments complete in, the stream is one   *)
(* chain: consecutive heights from From on, each block on its parent.      *)
StreamIsChain ==
  \A i \in DOMAIN delivered :
    /\ delivered[i].number = From + i - 1
    /\ i > 1 => delivered[i].parent = delivered[i - 1].hash

(* A fork is signalled only where the upstream forked: the reference names *)
(* the height last delivered.  A gap or a repeat would be signalled at     *)
(* another height and send ingestion looking for a fork that never was.    *)
ForkIsReal == session.at = "fork" => session.fault = From + Len(delivered) - 1

(* WP-11.5: a block that exhausts its budget ends the session only after   *)
(* every block below it was delivered, and none above it.                  *)
FaultLeavesNoGap == session.at = "fault" => session.fault = From + Len(delivered)

(* A bounded range is delivered or the session ends with an error: no mode *)
(* waits for another, and nothing in flight is forgotten.                  *)
StreamEnds == <>(session.at \in Ends_ \cup {"closed"})
=============================================================================
