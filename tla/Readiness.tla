----------------------------- MODULE Readiness -----------------------------
(***************************************************************************)
(* What the service says about itself: the view of the upstream head       *)
(* (metrics.rs), the readiness verdict computed from it and the stall      *)
(* alarm.  The tasks that touch this state are the head observer, the      *)
(* source's own head observations, the ingestion task committing batches,  *)
(* the levels ticker, scrapes and readiness probes.                        *)
(*                                                                         *)
(* An instant is modelled by its age in time units.  Every age is compared *)
(* with StallAfter only, so ages stop there.  Code between two awaits is   *)
(* not atomic with the other tasks, but takes less than a time unit.       *)
(***************************************************************************)
EXTENDS Integers, FiniteSetsExt

CONSTANTS
  StallAfter,   \* stall_after: 60 s in the code
  MaxHeight,    \* highest block the upstream produces
  Refreshers,   \* who evaluates the levels: the ticker, and scrapes
  None

ASSUME StallAfterAssumption == StallAfter \in Nat /\ StallAfter >= 4
ASSUME MaxHeightAssumption == MaxHeight \in Nat
ASSUME NoneAssumption ==
  /\ None \notin Nat \cup [number : Nat, age : Nat]
  /\ None \notin [number : Nat, numberAge : Nat, readAge : Nat \cup {None}]

(* The observer's cadence and the bound of each of its reads.              *)
RefreshInterval == StallAfter \div 2
RefreshTimeout == Max({RefreshInterval \div 4, 1})

VARIABLES
  upstream,       \* external: the height the upstream has reached
  head,           \* the chain's head, behind its lock
  committing,     \* how far the commit that holds the write lock has come
  observation,    \* upstream_head_observation, or None
  clock,          \* stall_clock; committed starts at the process's start
  last_block,     \* the level of that name
  stall_alarm,
  refresh,        \* what each evaluation of the levels has in hand
  levelled,       \* the levels were published in this time unit
  observer,       \* the head observer: its read, and time to its next tick
  probe, ready,   \* the head a probe has sampled; its verdict
  quiet,          \* history: age of the last commit, or of the upstream getting
                  \* ahead of what was committed
  seeded,         \* history: a re-seed made the buffer, nothing committed since
  watched,        \* history: time the view has been ahead, without a commit
  heard           \* history: the last height an answer of the upstream gave, for
                  \* StallAfter

viewVars == <<observation, heard>>
commitVars == <<head, committing, last_block>>
alarmVars == <<clock, stall_alarm, refresh, levelled>>
probeVars == <<probe, ready>>
quietVars == <<quiet, seeded>>
readinessVars ==
  <<upstream, commitVars, viewVars, alarmVars, observer, probeVars, quietVars, watched>>

Ages == 0 .. StallAfter
Heights == 0 .. MaxHeight
Older(age) == IF age = None THEN None ELSE Min({age + 1, StallAfter})

Idle == [at |-> "idle"]

ReadinessInit ==
  /\ upstream \in Heights
  /\ head = 0 /\ last_block = 0
  /\ committing = "no"
  /\ observation = None
  /\ clock = [committed |-> 0, behind |-> None]
  /\ stall_alarm = FALSE
  /\ refresh = [r \in Refreshers |-> Idle]
  /\ levelled = FALSE
  /\ observer = [reading |-> FALSE, spent |-> 0, due |-> 0]
  /\ probe = Idle /\ ready = FALSE
  /\ quiet = 0 /\ seeded = FALSE /\ watched = 0
  /\ heard = None

----------------------------------------------------------------------------
(* The upstream and what is heard of it.                                   *)

Produce ==
  /\ upstream < MaxHeight
  /\ upstream' = upstream + 1
  /\ quiet' = IF upstream <= last_block THEN 0 ELSE quiet
  /\ UNCHANGED <<commitVars, viewVars, alarmVars, observer, probeVars, seeded, watched>>

(* The view is ahead of the buffer as published.                           *)
Ahead(view, level) == view /= None /\ view.number > level

(* watched restarts whenever the view, or the level, ends an advance.      *)
Watching(view, level) == watched' = IF Ahead(view, level) THEN watched ELSE 0

ObserveUpstreamHead(n) ==
  /\ observation' = [number |-> n, numberAge |-> 0, readAge |-> 0]
  /\ heard' = [number |-> n, age |-> 0]
  /\ Watching(observation', last_block)

(* A fleet's node may answer with less than another has delivered.         *)
Observes == \E n \in 0 .. upstream : ObserveUpstreamHead(n)

(* The poller's hits and null answers, and eth_blockNumber reads.          *)
SourceObserves ==
  /\ Observes
  /\ UNCHANGED <<upstream, commitVars, alarmVars, observer, probeVars, quietVars>>

BeginRead ==
  /\ observer.due = 0 /\ ~observer.reading
  /\ observer' = [reading |-> TRUE, spent |-> 0, due |-> RefreshInterval]
  /\ UNCHANGED <<upstream, commitVars, viewVars, alarmVars, probeVars, quietVars, watched>>

ReadAnswered ==
  /\ observer.reading
  /\ observer' = [observer EXCEPT !.reading = FALSE, !.spent = 0]
  /\ Observes
  /\ UNCHANGED <<upstream, commitVars, alarmVars, probeVars, quietVars>>

(* An error at any time, or the timeout: the view is left to age.          *)
ReadFails ==
  /\ observer.reading
  /\ observer' = [observer EXCEPT !.reading = FALSE, !.spent = 0]
  /\ UNCHANGED <<upstream, commitVars, viewVars, alarmVars, probeVars, quietVars, watched>>

----------------------------------------------------------------------------
(* The ingestion task.  A batch ends at some height: it moves the head     *)
(* there, or was all duplicates.                                           *)

(* Mutant: a batch is taken for a read.                                    *)
ProgressViewFresh(n) ==
  IF observation /= None /\ observation.number >= n THEN observation
  ELSE [number |-> n, numberAge |-> 0, readAge |-> 0]

(* A commit's progress improves the number and keeps the read's age.       *)
ProgressView(n) ==
  IF observation /= None /\ observation.number >= n THEN observation
  ELSE [number |-> n, numberAge |-> 0,
        readAge |-> IF observation = None THEN None ELSE observation.readAge]

ObserveUpstreamProgress(n) ==
  /\ observation' = ProgressView(n)
  /\ Watching(observation', last_block)
  /\ UNCHANGED heard

PushBatch ==
  /\ committing = "no"
  /\ \E n \in 1 .. upstream :
       /\ head' \in {n} \cup {h \in {head} : n <= h}
       /\ ObserveUpstreamProgress(n)
  /\ committing' = "pushed"
  /\ UNCHANGED <<upstream, last_block, alarmVars, observer, probeVars, quietVars>>

(* History: the commit comes after a verdict that is not published yet.    *)
Overtake(task) == IF task.at = "decided" THEN [task EXCEPT !.overtaken = TRUE] ELSE task

RecordCommit ==
  /\ committing = "pushed"
  /\ committing' = "recorded"
  /\ clock' = [clock EXCEPT !.committed = 0]
  /\ refresh' = [r \in Refreshers |-> Overtake(refresh[r])]
  /\ quiet' = 0 /\ seeded' = FALSE /\ watched' = 0
  /\ UNCHANGED <<upstream, head, last_block, viewVars, stall_alarm, levelled, observer, probeVars>>

(* Sets the levels and releases the lock.                                  *)
TriggerUpdate ==
  /\ committing = "recorded"
  /\ committing' = "no"
  /\ last_block' = head
  /\ Watching(observation, head)
  /\ UNCHANGED <<upstream, head, viewVars, alarmVars, observer, probeVars, quietVars>>

(* A re-seed replaces the buffer without being a commit.                   *)
Reseed ==
  /\ committing = "no"
  /\ head' \in 0 .. upstream
  /\ last_block' = head'
  /\ Watching(observation, head')
  /\ seeded' = TRUE
  /\ UNCHANGED <<upstream, committing, viewVars, alarmVars, observer, probeVars, quiet>>

----------------------------------------------------------------------------
(* refresh_stall_alarm: the view is copied and compared with the level,    *)
(* the clock is consulted under its lock, and the verdict is published     *)
(* once that is released.                                                  *)

SampleView(r) ==
  /\ refresh[r] = Idle
  /\ refresh' = [refresh EXCEPT ![r] =
       [at |-> "sampled",
        observed |-> IF Ahead(observation, last_block) THEN observation.numberAge ELSE None]]
  /\ UNCHANGED <<upstream, commitVars, viewVars, clock, stall_alarm, levelled, observer, probeVars,
                 quietVars, watched>>

(* Mutant: every observation restarts the clock.                           *)
BehindSinceLatest(observed) == observed

(* The clock keeps the observation that first put the upstream ahead.      *)
BehindSince(observed) ==
  IF observed = None THEN None ELSE IF clock.behind = None THEN observed ELSE clock.behind

(* Mutant: when the upstream got ahead is forgotten.                       *)
StalledSinceCommit(behind) == behind /= None /\ clock.committed >= StallAfter

(* The later of two instants is the younger.                               *)
Stalled(behind) == behind /= None /\ Min({clock.committed, behind}) >= StallAfter

Decide(r) ==
  /\ refresh[r].at = "sampled"
  /\ LET behind == BehindSince(refresh[r].observed) IN
       /\ clock' = [clock EXCEPT !.behind = behind]
       /\ refresh' = [refresh EXCEPT ![r] =
            [at |-> "decided", stalled |-> Stalled(behind), overtaken |-> FALSE]]
  /\ UNCHANGED <<upstream, commitVars, viewVars, stall_alarm, levelled, observer, probeVars,
                 quietVars, watched>>

(* Mutant: the level is raised and never lowered.                          *)
PublishLatched(r) ==
  /\ refresh[r].at = "decided"
  /\ stall_alarm' = (stall_alarm \/ refresh[r].stalled)
  /\ refresh' = [refresh EXCEPT ![r] = Idle]
  /\ levelled' = TRUE
  /\ UNCHANGED <<upstream, commitVars, viewVars, clock, observer, probeVars, quietVars, watched>>

Publish(r) ==
  /\ refresh[r].at = "decided"
  /\ stall_alarm' = refresh[r].stalled
  /\ refresh' = [refresh EXCEPT ![r] = Idle]
  /\ levelled' = TRUE
  /\ UNCHANGED <<upstream, commitVars, viewVars, clock, observer, probeVars, quietVars, watched>>

----------------------------------------------------------------------------
(* is_ready: the view is sampled first, the chain read under its lock.     *)

FreshUpstreamHead ==
  IF observation /= None /\ observation.readAge /= None /\ observation.readAge < StallAfter
  THEN observation.number ELSE None

SampleHead ==
  /\ probe = Idle
  /\ probe' = [at |-> "sampled", head |-> FreshUpstreamHead,
               heard |-> IF heard = None THEN None ELSE heard.number]
  /\ ready' = FALSE
  /\ UNCHANGED <<upstream, commitVars, viewVars, alarmVars, observer, quietVars, watched>>

AnswerProbe ==
  /\ probe.at = "sampled"
  /\ committing = "no"
  /\ ready' = (probe.head /= None /\ probe.head <= head)
  /\ probe' = Idle
  /\ UNCHANGED <<upstream, commitVars, viewVars, alarmVars, observer, quietVars, watched>>

----------------------------------------------------------------------------
(* Time passes when no synchronous section is under way and no timer is    *)
(* due.                                                                    *)
Tick ==
  /\ committing = "no" /\ probe = Idle
  /\ \A r \in Refreshers : refresh[r] = Idle
  /\ levelled
  /\ observer.due > 0
  /\ observer.reading => observer.spent < RefreshTimeout
  /\ observer' = [observer EXCEPT !.due = @ - 1, !.spent = IF observer.reading THEN @ + 1 ELSE @]
  /\ observation' = IF observation = None THEN None
                    ELSE [observation EXCEPT !.numberAge = Older(@), !.readAge = Older(@)]
  /\ heard' = IF heard = None \/ heard.age + 1 >= StallAfter THEN None
              ELSE [heard EXCEPT !.age = @ + 1]
  /\ clock' = [committed |-> Older(clock.committed), behind |-> Older(clock.behind)]
  /\ quiet' = Older(quiet)
  /\ watched' = IF Ahead(observation, last_block) THEN Min({watched + 1, StallAfter + 2}) ELSE 0
  /\ levelled' = FALSE
  /\ UNCHANGED <<upstream, commitVars, stall_alarm, refresh, probeVars, seeded>>

ReadinessNext ==
  \/ Produce \/ SourceObserves \/ BeginRead \/ ReadAnswered \/ ReadFails
  \/ PushBatch \/ RecordCommit \/ TriggerUpdate \/ Reseed
  \/ \E r \in Refreshers : SampleView(r) \/ Decide(r) \/ Publish(r)
  \/ SampleHead \/ AnswerProbe
  \/ Tick

ReadinessSpec == ReadinessInit /\ [][ReadinessNext]_readinessVars

----------------------------------------------------------------------------
(* The alarm is raised only over a real stall: nothing was committed for   *)
(* StallAfter, and the upstream has had more than was committed for that   *)
(* long too, less the time unit between two evaluations.  A chain that     *)
(* idled does not alarm on its next block.  After a re-seed, which is not  *)
(* progress, only the commits count.  The one exception is a commit        *)
(* recorded between the verdict and its publication, which no lock spans   *)
(* (refresh_stall_alarm, record_commit).                                   *)
AlarmEarned ==
  [][~stall_alarm /\ stall_alarm' =>
       \/ clock.committed = StallAfter /\ (seeded \/ quiet >= StallAfter - 1)
       \/ \E r \in Refreshers : refresh[r].at = "decided" /\ refresh[r].overtaken /\ refresh'[r] = Idle]_readinessVars

(* A commit silences the alarm: it stands over one for the rest of that    *)
(* time unit and the next at most, even where a verdict of before the      *)
(* commit is published after one of after it (refresh_stall_alarm,         *)
(* record_commit, levels ticker).                                          *)
AlarmSilenced == stall_alarm => clock.committed \in {0, 1, StallAfter}

(* Once the view has been ahead of the buffer for StallAfter without a     *)
(* commit, the alarm is on: however often the head is read again, whoever  *)
(* evaluates, and with nobody scraping.  One time unit may pass before the *)
(* first evaluation and one before the last (refresh_stall_alarm, levels   *)
(* ticker).                                                                *)
StallAlarmed == watched > StallAfter + 1 => stall_alarm

(* A probe answers ready only if, when it looked, the upstream had         *)
(* answered within StallAfter, and the buffer has reached what it said:    *)
(* batches that keep arriving do not hide that its head cannot be read     *)
(* (is_ready, fresh_upstream_head, observe_upstream_progress).             *)
ReadyIsEarned ==
  [][ready' /\ ~ready => probe.heard /= None /\ probe.heard <= head]_readinessVars

=============================================================================
