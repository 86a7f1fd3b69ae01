---------------------------- MODULE QueryService ----------------------------
(***************************************************************************)
(* One /stream request against the writer: handle_stream's verdict (http.rs*)
(* and classify_query, wait_for_block of service.rs).  Every read of the   *)
(* buffer takes the read lock by itself, so the writer may commit between  *)
(* any two of them.  The writer is PublishedChain, which ChainBuffer and   *)
(* Ingestion implement; requests do not affect it or one another.          *)
(***************************************************************************)
EXTENDS ChainQuery

CONSTANTS
  Buffers,    \* the buffers the writer may publish
  Froms,      \* fromBlock of a request
  BaseHashes  \* parentBlockHash of a request, NoHash among them

(* No block is mapped with a parent above itself (map_raw_block).          *)
ASSUME BuffersAssumption ==
  \A c \in Buffers :
    /\ c.blocks \in Seq(Block) /\ Linked(c.blocks) /\ c.finalized_head \in DOMAIN c.blocks
    /\ c.blocks[1].parent_number <= c.blocks[1].number
ASSUME FromsAssumption == Froms \subseteq Nat

VARIABLES
  blocks, finalized,  \* what is published
  block_watch,        \* the height in the watch channel
  pc,                 \* where the request is
  from, base_hash,    \* its arguments
  response            \* the verdict

vars == <<blocks, finalized, block_watch, pc, from, base_hash, response>>

Writer == INSTANCE PublishedChain

Now == [blocks |-> blocks, finalized_head |-> finalized, undo |-> NoUndo]

NoResponse == Answer("None", NoRef, << >>, << >>)

Init ==
  /\ \E c \in Buffers : blocks = c.blocks /\ finalized = c.finalized_head
  /\ Writer!Init
  /\ block_watch = LastBlock(Now).number
  /\ pc = "idle"
  /\ from = 0
  /\ base_hash = NoHash
  /\ response = NoResponse

-----------------------------------------------------------------------------
(* The writer: a batch or a re-seed is published, and the watch is set     *)
(* under the same write lock (trigger_update_locked).                      *)

Notified(bs) == bs[Len(bs)].number

Publishes(c) ==
  /\ blocks' = c.blocks
  /\ finalized' = c.finalized_head
  /\ block_watch' = Notified(c.blocks)
  /\ UNCHANGED <<pc, from, base_hash, response>>

PublishBatch(c) == Publishes(c) /\ Writer!Publish

ReseedBuffer(c) == Publishes(c) /\ Writer!Reseed

-----------------------------------------------------------------------------
(* The request.                                                            *)

Moves(there) == pc' = there /\ UNCHANGED <<blocks, finalized, block_watch, from, base_hash>>

Arrive(f, h) ==
  /\ pc = "idle"
  /\ pc' = "admitted"
  /\ from' = f
  /\ base_hash' = h
  /\ response' = NoResponse
  /\ UNCHANGED <<blocks, finalized, block_watch>>

(* The first lock: is the request below the window?                        *)
Classify ==
  /\ pc = "admitted"
  /\ Moves(IF BelowWindow(Now, from) THEN "below" ELSE "cached")
  /\ UNCHANGED response

(* below_query's own lock: the tail and the finalized head of one moment.  *)
(* Module Backfill continues from here.                                    *)
SnapshotBelow ==
  /\ pc = "below"
  /\ response' = Answer("Backfill", GetFinalizedHead(Now), blocks, << >>)
  /\ Moves("answered")

(* The second lock: a conflict or a window is final, an empty answer waits.*)
QueryCache ==
  LET answer == Query(Now, from, base_hash)
  IN  /\ pc = "cached"
      /\ response' = IF answer.kind = "Empty" THEN NoResponse ELSE answer
      /\ Moves(IF answer.kind = "Empty" THEN "waiting" ELSE "answered")

(* Mutant: the waiter looks for a height beyond the one it waits for.      *)
ReachedLate == block_watch > from

Reached == block_watch >= from

Wake == pc = "waiting" /\ Reached /\ Moves("requery") /\ UNCHANGED response

(* The wait of P-WAIT-BLOCK runs out.                                      *)
Expire == pc = "waiting" /\ ~Reached /\ Moves("requery") /\ UNCHANGED response

(* The response budget runs out first: handle_stream's empty answer.       *)
BudgetSpent ==
  /\ pc = "waiting" /\ ~Reached
  /\ response' = Answer("Empty", GetFinalizedHead(Now), << >>, << >>)
  /\ Moves("answered")

(* Mutant: an empty answer after the wait waits again.                     *)
RequeryRepeats ==
  LET answer == Query(Now, from, base_hash)
  IN  /\ pc = "requery"
      /\ response' = IF answer.kind = "Empty" THEN NoResponse ELSE answer
      /\ Moves(IF answer.kind = "Empty" THEN "waiting" ELSE "answered")

(* A third lock after the wait; whatever it says is the answer.            *)
Requery ==
  /\ pc = "requery"
  /\ response' = Query(Now, from, base_hash)
  /\ Moves("answered")

Close ==
  /\ pc = "answered"
  /\ pc' = "idle"
  /\ from' = 0
  /\ base_hash' = NoHash
  /\ response' = NoResponse
  /\ UNCHANGED <<blocks, finalized, block_watch>>

Next ==
  \/ \E c \in Buffers : PublishBatch(c) \/ ReseedBuffer(c)
  \/ \E f \in Froms, h \in BaseHashes : Arrive(f, h)
  \/ Classify \/ SnapshotBelow \/ QueryCache \/ Requery
  \/ Wake \/ Expire \/ BudgetSpent
  \/ Close

(* Request tasks are scheduled.                                            *)
TaskFairness == WF_vars(Classify \/ SnapshotBelow \/ QueryCache \/ Requery) /\ WF_vars(Wake)

(* Nothing is promised of timers here: see AnswersEventually.              *)
Spec == Init /\ [][Next]_vars /\ TaskFairness

-----------------------------------------------------------------------------
(* Properties.                                                             *)

Answering == pc \in {"cached", "requery"} /\ pc' = "answered"

(* INV-20..22, RP-3: the verdict is that of the one buffer published at    *)
(* the moment of the answer, also after a wait: a conflict if and only if  *)
(* the base check fails against it; otherwise, if it can serve the height, *)
(* its whole suffix from the lowest block asked for with its finalized     *)
(* head; empty only if it cannot.                                          *)
VerdictOfTheMoment ==
  [][Answering =>
       /\ response'.kind = "Conflict" <=> BaseFails(Now, from, base_hash)
       /\ response'.kind = "Window" => InWindow(Now, from)
       /\ InWindow(Now, from) /\ ~BaseFails(Now, from, base_hash) =>
            /\ response'.kind = "Window"
            /\ response'.tail # << >> /\ IsSuffix(response'.tail, blocks)
            /\ response'.tail[1] = LowestFrom(Now, from)
            /\ response'.finalized_head = GetFinalizedHead(Now)]_vars

(* RP-7: the refs of a conflict ascend, each is a buffered block or the    *)
(* parent of one, and a client that resumes above any of them with its     *)
(* hash is not refused by the same buffer, so recovery converges.          *)
RecoveryConverges ==
  [][Answering /\ response'.kind = "Conflict" =>
       LET prev == response'.prev
       IN  /\ prev # << >> /\ Len(prev) <= RefSpan + 1
           /\ \A i, j \in DOMAIN prev : i < j => prev[i].number < prev[j].number
           /\ \A i \in DOMAIN prev :
                /\ \E b \in Range(blocks) : prev[i] \in {Ref(b), ParentRef(b)}
                /\ InWindow(Now, prev[i].number + 1) \/ prev[i] = GetHead(Now)
                /\ ~BaseFails(Now, prev[i].number + 1, prev[i].hash)]_vars

(* A fired timer polls the waiter, which leaves by one door or another.    *)
TimersFire == WF_vars(Wake \/ Expire \/ BudgetSpent)

(* LIV-3: every admitted request gets its verdict, timers firing.          *)
AnswersEventually == TimersFire => (pc = "admitted" ~> pc = "answered")

(* LIV-4: a commit that reaches the awaited height, and is not undone,     *)
(* releases the waiter without the help of its timer.                      *)
CommitReleasesWaiter ==
  (pc = "waiting" /\ [](LastBlock(Now).number >= from)) ~> pc # "waiting"

=============================================================================
