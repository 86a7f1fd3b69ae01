---------------------------- MODULE FinalityView ----------------------------
(***************************************************************************)
(* The finalized head as the EVM source last observed it (fetch.rs,        *)
(* FinalizedHeadCache).  A seed replaces the view and opens an epoch; the  *)
(* prober reads through it and range acquisition refreshes it beside its   *)
(* work.  Every fetch takes its time, and different nodes may answer: any  *)
(* fetch may land late, land a lower head, or fail.                        *)
(***************************************************************************)
EXTENDS Integers

CONSTANTS
  Tasks,      \* where calls run: the ingestion loop, probers, refreshes
  Heads,      \* finalized heads some node may answer with
  NoView,     \* nothing observed yet
  NoHead,
  MaxEpoch    \* bounds the number of seeds

ASSUME HeadsAssumption == \A h \in Heads : h.number \in Nat
ASSUME NoHeadAssumption == NoHead \notin Heads
ASSUME MaxEpochAssumption == MaxEpoch \in Nat

VARIABLES
  observed,     \* NoView, or the head, whether within its TTL, and the epoch it was asked in
  refreshing,   \* a background refresh is in flight
  epoch,        \* counts the seeds
  task          \* per task: what it runs and how far, the epoch and the answer it holds

vars == <<observed, refreshing, epoch, task>>

Kinds == {"none", "resync", "cached", "refresh"}
View == [head : Heads, fresh : BOOLEAN, asked : Nat]
ASSUME NoViewAssumption == NoView \notin View
Idle == [kind |-> "none", pc |-> "idle", epoch |-> 0, head |-> NoHead]

Init ==
  /\ observed = NoView
  /\ refreshing = FALSE
  /\ epoch = 0
  /\ task = [t \in Tasks |-> Idle]

-----------------------------------------------------------------------------
Runs(t, kind, pc) == task[t].kind = kind /\ task[t].pc = pc

Goes(t, kind, pc, e) == task' = [task EXCEPT ![t] = [kind |-> kind, pc |-> pc, epoch |-> e, head |-> NoHead]]

Ends(t) == task' = [task EXCEPT ![t] = Idle]

Fresh == observed # NoView /\ observed.fresh

(* Mutant: an answer asked for in an abandoned epoch is stored.            *)
StoreAnyEpoch(e, h) ==
  IF observed # NoView /\ observed.head.number >= h.number
    THEN [observed EXCEPT !.fresh = TRUE]
    ELSE [head |-> h, fresh |-> TRUE, asked |-> e]

Store(e, h) ==
  IF e # epoch THEN observed
  ELSE IF observed # NoView /\ observed.head.number >= h.number
    THEN [observed EXCEPT !.fresh = TRUE]
    ELSE [head |-> h, fresh |-> TRUE, asked |-> e]

-----------------------------------------------------------------------------
(* resync_finalized_head, called by the one ingestion loop.                *)

BeginResync(t) ==
  /\ task[t] = Idle
  /\ \A u \in Tasks : task[u].kind # "resync"
  /\ epoch < MaxEpoch
  /\ Goes(t, "resync", "fetching", epoch)
  /\ UNCHANGED <<observed, refreshing, epoch>>

ResyncDone(t, h) ==
  /\ Runs(t, "resync", "fetching")
  /\ epoch' = epoch + 1
  /\ observed' = [head |-> h, fresh |-> TRUE, asked |-> epoch + 1]
  /\ Ends(t)
  /\ UNCHANGED refreshing

-----------------------------------------------------------------------------
(* get_finalized_head_cached on a miss: the check and the reading of the   *)
(* epoch take the lock separately.                                         *)

CacheMiss(t) ==
  /\ task[t] = Idle
  /\ ~Fresh
  /\ Goes(t, "cached", "missed", 0)
  /\ UNCHANGED <<observed, refreshing, epoch>>

AskForHead(t) ==
  /\ Runs(t, "cached", "missed")
  /\ Goes(t, "cached", "fetching", epoch)
  /\ UNCHANGED <<observed, refreshing, epoch>>

CachedDone(t, h) ==
  /\ Runs(t, "cached", "fetching")
  /\ observed' = Store(task[t].epoch, h)
  /\ Ends(t)
  /\ UNCHANGED <<refreshing, epoch>>

-----------------------------------------------------------------------------
(* refresh_finalized_head.  The flag falls before the answer is stored.    *)

BeginRefresh(t) ==
  /\ task[t] = Idle
  /\ ~refreshing /\ ~Fresh
  /\ refreshing' = TRUE
  /\ Goes(t, "refresh", "fetching", epoch)
  /\ UNCHANGED <<observed, epoch>>

RefreshLands(t, h) ==
  /\ Runs(t, "refresh", "fetching")
  /\ refreshing' = FALSE
  /\ task' = [task EXCEPT ![t].pc = "landed", ![t].head = h]
  /\ UNCHANGED <<observed, epoch>>

RefreshStored(t) ==
  /\ Runs(t, "refresh", "landed")
  /\ observed' = Store(task[t].epoch, task[t].head)
  /\ Ends(t)
  /\ UNCHANGED <<refreshing, epoch>>

-----------------------------------------------------------------------------

FetchFails(t) ==
  /\ task[t].pc = "fetching"
  /\ refreshing' = (refreshing /\ task[t].kind # "refresh")
  /\ Ends(t)
  /\ UNCHANGED <<observed, epoch>>

TtlPasses ==
  /\ Fresh
  /\ observed' = [observed EXCEPT !.fresh = FALSE]
  /\ UNCHANGED <<refreshing, epoch, task>>

FetchEnds(t) ==
  \/ FetchFails(t)
  \/ \E h \in Heads : ResyncDone(t, h) \/ CachedDone(t, h) \/ RefreshLands(t, h)

Next ==
  \/ \E t \in Tasks :
       \/ BeginResync(t) \/ CacheMiss(t) \/ AskForHead(t) \/ BeginRefresh(t)
       \/ RefreshStored(t) \/ FetchEnds(t)
  \/ TtlPasses

(* A fetch ends: the RPC client bounds every call.                         *)
Spec == Init /\ [][Next]_vars /\ \A t \in Tasks : WF_vars(FetchEnds(t))

-----------------------------------------------------------------------------
(* Properties.                                                             *)

TypeOK ==
  /\ observed \in View \cup {NoView}
  /\ refreshing \in BOOLEAN
  /\ epoch \in Nat
  /\ task \in [Tasks -> [kind : Kinds, pc : {"idle", "missed", "fetching", "landed"},
                         epoch : Nat, head : Heads \cup {NoHead}]]

(* The hint's age is not checked, because it "cannot span a re-seed": a    *)
(* view is always an answer to a question asked in the present epoch, or   *)
(* the seed that opened it, however late other answers land.               *)
ViewIsOfEpoch == observed # NoView => observed.asked = epoch

(* Within an epoch the view only rises: a lagging node that answers last   *)
(* neither lowers it nor changes the block at its height.                  *)
ViewClimbs ==
  [][epoch' = epoch /\ observed # NoView
       => /\ observed' # NoView
          /\ \/ observed'.head = observed.head
             \/ observed'.head.number > observed.head.number]_vars

(* The flag admits one background fetch at a time: refresh_finalized_head  *)
(* is called once per acquired range and must not pile calls up.           *)
OneRefresh ==
  \A t, u \in Tasks : Runs(t, "refresh", "fetching") /\ Runs(u, "refresh", "fetching") => t = u

(* The flag is up while a background fetch is in flight.                   *)
FlagRaised == \A t \in Tasks : Runs(t, "refresh", "fetching") => refreshing

(* A refresh that landed has an answer to store.                           *)
LandedHolds == \A t \in Tasks : task[t].pc = "landed" => task[t].head \in Heads

=============================================================================
