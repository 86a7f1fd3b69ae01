--------------------------- MODULE FinalityProber ---------------------------
(***************************************************************************)
(* finalize_stream of source.rs: the head stream passes through at once    *)
(* while a prober task asks, beside it, which of the delivered blocks have *)
(* become final.  Two bounded channels join them; an offer to a full one   *)
(* is dropped.                                                             *)
(*                                                                         *)
(* The stream delivers one block per height, in order and linked           *)
(* (ensure_continuity), so once it delivered a block that lost the race    *)
(* all that follow are orphans too.  delivered[n] is TRUE when block n is  *)
(* on the chain that becomes final.  The upstream is external: a node may  *)
(* lag, but at a final height it never holds a block that is not final.    *)
(***************************************************************************)
EXTENDS FiniteSetsExt, SequencesExt

CONSTANTS
  MaxHeight,    \* bounds the stream
  QueueCap,     \* PROBE_QUEUE_CAP, of the queue and of its ingress
  ProbeBatch,   \* PROBE_BATCH
  ResultCap     \* of the channel back to the stream

ASSUME CapsAssumption == {MaxHeight, QueueCap, ProbeBatch, ResultCap} \subseteq Nat \ {0}

VARIABLES
  delivered,          \* the blocks the stream yielded
  open,               \* the stream is being read
  current_finalized,  \* the stream's watermark, a height; 0 is none
  report,             \* the finalized head of the last head batch
  ingress, results,   \* the channels to and from the prober
  missed,             \* the last offer met a full ingress
  prober,             \* gather, pacing, round, sending, ended
  queue, probes,      \* heights awaiting confirmation, and those of the round
  confirmed,          \* the prober's watermark
  upstream            \* the upstream's finalized height

streamVars == <<delivered, open, current_finalized, report, missed>>
proberVars == <<prober, queue, probes, confirmed>>
vars == <<streamVars, ingress, results, proberVars, upstream>>

Init ==
  /\ delivered = << >> /\ open = TRUE
  /\ current_finalized = 0 /\ report = 0
  /\ ingress = << >> /\ results = << >> /\ missed = FALSE
  /\ prober = "gather" /\ queue = << >> /\ probes = << >> /\ confirmed = 0
  /\ upstream = 0

-----------------------------------------------------------------------------
(* The stream.                                                             *)

Candidate(n) == [kind |-> "candidate", number |-> n]
Settled(n) == [kind |-> "settled", number |-> n]

(* Offers made one after the other: once the channel is full the rest are  *)
(* dropped.                                                                *)
Offer(ch, msgs) ==
  LET room == QueueCap - Len(ch)
  IN  IF Len(msgs) <= room THEN ch \o msgs ELSE ch \o SubSeq(msgs, 1, room)

OnFinalChain == \A i \in DOMAIN delivered : delivered[i]

Later(a, b) == IF b > a THEN b ELSE a

(* A batch without a report: k blocks, each a candidate.                   *)
DeliverHead(k, canonical) ==
  LET last == Len(delivered) + k
  IN  /\ open /\ last <= MaxHeight
      /\ canonical => OnFinalChain
      /\ delivered' = delivered \o [i \in 1 .. k |-> canonical]
      /\ ingress' = Offer(ingress, [i \in 1 .. k |-> Candidate(Len(delivered) + i)])
      /\ missed' = (ingress' = << >> \/ Last(ingress') # Candidate(last))
      /\ report' = current_finalized
      /\ UNCHANGED <<open, current_finalized, results, proberVars, upstream>>

(* A batch of a final range, which carries its own report.                 *)
DeliverFinal(k) ==
  LET last == Len(delivered) + k
  IN  /\ open /\ last <= MaxHeight /\ last <= upstream
      /\ OnFinalChain
      /\ delivered' = delivered \o [i \in 1 .. k |-> TRUE]
      /\ current_finalized' = Later(current_finalized, last)
      /\ ingress' = Offer(ingress, <<Settled(last)>>)
      /\ missed' = FALSE
      /\ UNCHANGED <<open, report, results, proberVars, upstream>>

RecordResult ==
  /\ open /\ results # << >>
  /\ current_finalized' = Later(current_finalized, Head(results))
  /\ results' = Tail(results)
  /\ UNCHANGED <<delivered, open, report, missed, ingress, proberVars, upstream>>

(* The stream ends, fails or is dropped, and its channel ends with it.     *)
StreamOver ==
  /\ open
  /\ open' = FALSE
  /\ results' = << >>
  /\ UNCHANGED <<delivered, current_finalized, report, missed, ingress, proberVars, upstream>>

-----------------------------------------------------------------------------
(* The prober.                                                             *)

(* The queue without the heights at its front that n settles.              *)
After(n) ==
  LET past == Max({i \in 0 .. Len(queue) : \A j \in 1 .. i : queue[j] <= n})
  IN  SubSeq(queue, past + 1, Len(queue))

(* Mutant: a full queue turns the newest candidate away.                   *)
AbsorbRefusing(msg) ==
  IF msg.kind = "settled" THEN After(msg.number)
  ELSE IF confirmed >= msg.number \/ Len(queue) >= QueueCap THEN queue
  ELSE Append(queue, msg.number)

(* absorb: a full queue gives up its newest for a newer one.               *)
Absorb(msg) ==
  IF msg.kind = "settled" THEN After(msg.number)
  ELSE IF confirmed >= msg.number THEN queue
  ELSE IF Len(queue) >= QueueCap THEN [queue EXCEPT ![Len(queue)] = msg.number]
  ELSE Append(queue, msg.number)

TakeMessage ==
  /\ prober = "gather" /\ ingress # << >>
  /\ queue' = Absorb(Head(ingress))
  /\ confirmed' = IF Head(ingress).kind = "settled" THEN Later(confirmed, Head(ingress).number)
                                                    ELSE confirmed
  /\ ingress' = Tail(ingress)
  /\ UNCHANGED <<streamVars, results, prober, probes, upstream>>

(* Mutant: the end of the stream is noticed only with nothing to probe.    *)
QuitIdle ==
  /\ prober = "gather" /\ ingress = << >> /\ ~open /\ queue = << >>
  /\ prober' = "ended"
  /\ UNCHANGED <<streamVars, ingress, results, queue, probes, confirmed, upstream>>

Quit ==
  /\ prober = "gather" /\ ingress = << >> /\ ~open
  /\ prober' = "ended"
  /\ UNCHANGED <<streamVars, ingress, results, queue, probes, confirmed, upstream>>

(* Everything waiting is absorbed; the round may have to wait its turn.    *)
Pace ==
  /\ prober = "gather" /\ ingress = << >> /\ queue # << >> /\ open
  /\ prober' = "pacing"
  /\ UNCHANGED <<streamVars, ingress, results, queue, probes, confirmed, upstream>>

BeginRound ==
  LET k == Min({Len(queue), ProbeBatch})
  IN  /\ prober = "pacing"
      /\ prober' = "round"
      /\ probes' = SubSeq(queue, 1, k)
      /\ queue' = SubSeq(queue, k + 1, Len(queue))
      /\ UNCHANGED <<streamVars, ingress, results, confirmed, upstream>>

RoundFails ==
  /\ prober = "round"
  /\ prober' = "gather"
  /\ queue' = probes \o queue
  /\ probes' = << >>
  /\ UNCHANGED <<streamVars, ingress, results, confirmed, upstream>>

(* What get_finalized_block_batch may answer: for the probes at or below   *)
(* the finalized height it knows, the final block or nothing.              *)
Answers ==
  UNION {[1 .. Cardinality({i \in DOMAIN probes : probes[i] <= known}) -> {"final", "none"}] :
           known \in 0 .. upstream}

(* Mutant: any block at the height confirms.                               *)
ConfirmsAny(infos, i) == infos[i] = "final"

Confirms(infos, i) == infos[i] = "final" /\ delivered[probes[i]]

Refutes(infos, i) == i \in DOMAIN infos /\ infos[i] = "final" /\ ~delivered[probes[i]]

(* Where the walk from the top of the answers stops; 0 is past the bottom. *)
WalkStop(infos) ==
  Max({0} \cup {i \in DOMAIN infos : confirmed >= probes[i] \/ Confirms(infos, i)})

(* The probes above the stop go back, except those an answer refuted.      *)
Returned(infos) ==
  LET back[i \in 0 .. Len(probes)] ==
        IF i <= WalkStop(infos) THEN << >>
        ELSE IF Refutes(infos, i) THEN back[i - 1]
        ELSE Append(back[i - 1], probes[i])
  IN  back[Len(probes)]

RoundAnswers(infos) ==
  LET stop == WalkStop(infos)
      hit == stop > 0 /\ confirmed < probes[stop]
  IN  /\ prober = "round"
      /\ queue' = Returned(infos) \o queue
      /\ confirmed' = IF hit THEN probes[stop] ELSE confirmed
      /\ prober' = IF hit THEN "sending" ELSE "gather"
      /\ probes' = << >>
      /\ UNCHANGED <<streamVars, ingress, results, upstream>>

SendResult ==
  /\ prober = "sending" /\ open /\ Len(results) < ResultCap
  /\ results' = Append(results, confirmed)
  /\ prober' = "gather"
  /\ UNCHANGED <<streamVars, ingress, queue, probes, confirmed, upstream>>

SendFails ==
  /\ prober = "sending" /\ ~open
  /\ prober' = "ended"
  /\ UNCHANGED <<streamVars, ingress, results, queue, probes, confirmed, upstream>>

UpstreamFinalizes ==
  /\ upstream < MaxHeight
  /\ upstream' = upstream + 1
  /\ UNCHANGED <<streamVars, ingress, results, proberVars>>

FullAnswer == RoundAnswers([i \in {j \in DOMAIN probes : probes[j] <= upstream} |-> "final"])

ProberSteps ==
  \/ TakeMessage \/ Quit \/ Pace \/ BeginRound
  \/ RoundFails \/ (prober = "round" /\ \E infos \in Answers : RoundAnswers(infos))
  \/ SendResult \/ SendFails

Finished == prober = "ended" /\ upstream = MaxHeight /\ UNCHANGED vars

Next ==
  \/ \E k \in {1, 2}, canonical \in BOOLEAN : DeliverHead(k, canonical)
  \/ \E k \in {1, 2} : DeliverFinal(k)
  \/ RecordResult \/ StreamOver
  \/ ProberSteps
  \/ UpstreamFinalizes \/ Finished

(* The prober is scheduled and its calls end; the reader of the stream     *)
(* takes what the prober confirmed; the chain goes on becoming final, and  *)
(* a node that knows so answers some of the rounds.  Nothing is assumed of *)
(* the stream, which may stay silent or open for ever.                     *)
Fairness ==
  /\ WF_vars(ProberSteps)
  /\ WF_vars(RecordResult)
  /\ WF_vars(UpstreamFinalizes)
  /\ SF_vars(prober = "round" /\ FullAnswer)

Spec == Init /\ [][Next]_vars /\ Fairness

-----------------------------------------------------------------------------
(* Properties.                                                             *)

Ascending(s) == \A i, j \in DOMAIN s : i < j => s[i] < s[j]

(* WP-11.6: whatever is lost, reordered or late between the two tasks, a   *)
(* watermark names a block this stream delivered and that is final.        *)
WatermarkTrue ==
  \A n \in {current_finalized, confirmed, report} \ {0} :
    n \in DOMAIN delivered /\ delivered[n] /\ n <= upstream

(* LIV: once the head stream pauses, its last block is confirmed, unless   *)
(* it was orphaned or its offer met a full ingress (a later one subsumes   *)
(* it).                                                                    *)
LastHeadConfirmed ==
  delivered # << >> /\ OnFinalChain /\ ~missed
    ~> \/ ~open \/ current_finalized = Len(delivered)
       \/ missed \/ ~OnFinalChain

(* A dropped stream ends its prober, even one that never confirms: each    *)
(* session starts its own.                                                 *)
ProberEnds == ~open ~> prober = "ended"
=============================================================================
