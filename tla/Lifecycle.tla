----------------------------- MODULE Lifecycle -----------------------------
(***************************************************************************)
(* The process around the ingestion task: run_data_service starts it       *)
(* beside the HTTP server, main waits for a signal, for the first block's  *)
(* verdict or for the end of the run, and drains.  The select of main is   *)
(* not biased: of several ready branches it takes any.                     *)
(***************************************************************************)
EXTENDS Ingestion

CONSTANT MaxSignals  \* signals the process is sent

ASSUME MaxSignalsAssumption == MaxSignals \in Nat

VARIABLES
  main,          \* "starting", "serving", "draining" or "exited"
  reason,        \* the ShutdownReason
  started_done,  \* main has taken the first block's verdict
  signals,       \* received and not yet taken by main
  sent,          \* signals sent so far
  responses,     \* whether the server has responses in flight
  exit           \* the exit code, or -1

lifeVars == <<main, reason, started_done, signals, sent, responses, exit>>
allVars == <<vars, lifeVars>>

ProcessInit ==
  /\ Init
  /\ main = "starting" /\ reason = "none"
  /\ started_done = FALSE
  /\ signals = 0 /\ sent = 0
  /\ responses = FALSE
  /\ exit = -1

Exit(code) == main' = "exited" /\ exit' = code

----------------------------------------------------------------------------
(* run_data_service: nothing is spawned before init and the bind succeed.  *)

Serve ==
  /\ main = "starting"
  /\ main' = "serving"
  /\ UNCHANGED <<vars, reason, started_done, signals, sent, responses, exit>>

(* Options that do not validate, no seed, or a port that is taken.         *)
StartFails ==
  /\ main = "starting"
  /\ Exit(1)
  /\ UNCHANGED <<vars, reason, started_done, signals, sent, responses>>

Ingest ==
  /\ main \in {"serving", "draining"}
  /\ TaskStep
  /\ UNCHANGED lifeVars

(* The task dies without reporting how it ended.                           *)
TaskPanics ==
  /\ main \in {"serving", "draining"}
  /\ pc # "ended"
  /\ EndRun("Vanished")
  /\ alarm' = "none"
  /\ UNCHANGED <<chain, loopVars, stopVars, opened, lifeVars>>

Signal ==
  /\ main \in {"serving", "draining"}
  /\ sent < MaxSignals
  /\ sent' = sent + 1 /\ signals' = signals + 1
  /\ UNCHANGED <<vars, main, reason, started_done, responses, exit>>

(* Responses begin while the listener is open and end by themselves.       *)
Respond ==
  /\ \/ main = "serving" /\ responses' = TRUE
     \/ main = "draining" /\ responses /\ responses' = FALSE
  /\ UNCHANGED <<vars, main, reason, started_done, signals, sent, exit>>

----------------------------------------------------------------------------
(* main's select.  Every branch but a good start goes on to shutdown,      *)
(* which closes the listener and fires the cancel channel before its first *)
(* await.                                                                  *)

LeaveServing(why) ==
  /\ main' = "draining"
  /\ reason' = why
  /\ IF pc = "ended" THEN UNCHANGED vars ELSE Shutdown

TakeSignal ==
  /\ main = "serving" /\ signals > 0
  /\ signals' = signals - 1
  /\ LeaveServing("Clean")
  /\ UNCHANGED <<started_done, sent, responses, exit>>

(* A run that failed before its first block says so twice.                 *)
StartRefused == pc = "ended" /\ run_end \in {"StartupFailure", "Terminal"} /\ ~first_block_ingested

TakeStarted ==
  /\ main = "serving" /\ ~started_done
  /\ first_block_ingested \/ StartRefused
  /\ started_done' = TRUE
  /\ IF StartRefused THEN LeaveServing("Failure") ELSE UNCHANGED <<vars, main, reason>>
  /\ UNCHANGED <<signals, sent, responses, exit>>

ClassifyRunEnd == IF run_end = "Stopped" THEN "Clean" ELSE "Failure"

(* Mutant: the end of the run is heard only when it is reported.           *)
TakeReportedEnd ==
  /\ main = "serving" /\ pc = "ended" /\ run_end # "Vanished"
  /\ LeaveServing(ClassifyRunEnd)
  /\ UNCHANGED <<started_done, signals, sent, responses, exit>>

TakeEnded ==
  /\ main = "serving" /\ pc = "ended"
  /\ LeaveServing(ClassifyRunEnd)
  /\ UNCHANGED <<started_done, signals, sent, responses, exit>>

----------------------------------------------------------------------------
(* finish_shutdown.                                                        *)

(* Mutant: a drain that was cut short exits like a complete one.           *)
ExitCodeOfReason(drained) == IF reason = "Clean" THEN 0 ELSE 1

ExitCode(drained) == IF drained /\ reason = "Clean" THEN 0 ELSE 1

Drained ==
  /\ main = "draining" /\ pc = "ended" /\ ~responses
  /\ Exit(ExitCode(TRUE))
  /\ UNCHANGED <<vars, reason, started_done, signals, sent, responses>>

GraceOver ==
  /\ main = "draining"
  /\ Exit(ExitCode(FALSE))
  /\ UNCHANGED <<vars, reason, started_done, signals, sent, responses>>

SecondSignal ==
  /\ main = "draining" /\ signals > 0
  /\ signals' = signals - 1
  /\ Exit(130)
  /\ UNCHANGED <<vars, reason, started_done, sent, responses>>

Gone == main = "exited" /\ UNCHANGED allVars

ProcessNext ==
  \/ Serve \/ StartFails \/ Ingest \/ TaskPanics \/ Signal \/ Respond
  \/ TakeSignal \/ TakeStarted \/ TakeEnded
  \/ Drained \/ GraceOver \/ SecondSignal \/ Gone

(* While the process lives the tasks are scheduled, the pause's timer      *)
(* fires and every RPC of a re-init ends (client.rs bounds each).  Nothing *)
(* is assumed of the head stream, which may stay silent forever, nor of    *)
(* signals, responses and the abort.                                       *)
Alive == main \in {"serving", "draining"}
ProcessFairness ==
  /\ WF_allVars(Alive /\ (Halt \/ OpenSession \/ BeginReseed \/ Resolve) /\ UNCHANGED lifeVars)
  /\ WF_allVars(Alive /\ PauseOver /\ UNCHANGED lifeVars)
  /\ WF_allVars(Alive /\ AnyReseed /\ UNCHANGED lifeVars)
  /\ WF_allVars(Alive /\ CancelSession /\ UNCHANGED lifeVars)
  /\ WF_allVars(TakeSignal \/ TakeStarted \/ TakeEnded)

ProcessSpec == ProcessInit /\ [][ProcessNext]_allVars /\ ProcessFairness
----------------------------------------------------------------------------
(* IB-11: the exit code 0 says that the stop was asked for, by a signal or *)
(* stop(), that ingestion has ended and that every response was finished,  *)
(* whatever of these raced with the rest (main, finish_shutdown).          *)
ExitZeroIsClean ==
  exit = 0 => pc = "ended" /\ ~responses /\ (sent > 0 \/ run_end = "Stopped")

(* The process never keeps serving with ingestion dead: however the run    *)
(* ended, reported or not, and though responses never finish, the process  *)
(* is gone once the grace timer has had its turn (main, finish_shutdown).  *)
DeadIngestionExits == WF_allVars(GraceOver) => (pc = "ended" ~> main = "exited")

(* LIV-9: a shutdown ends the run whatever it was doing and however silent *)
(* the source is, without the abort's help and without the grace timer's.  *)
ShutdownEndsRun == cancelled ~> (pc = "ended" \/ main = "exited")

(* LIV-2: as long as the process lives and sessions keep ending, a stalled *)
(* one leads to an advance of the head (or a fork, which restarts the      *)
(* count), a re-seed or the end of the run: the ladder has no silent idle  *)
(* state.                                                                  *)
LadderEscalates ==
  []<>(pc # "session") =>
    (stacked > 0 ~> (stacked = 0 \/ pc \in {"reinit", "ended"} \/ main = "exited"))
=============================================================================
