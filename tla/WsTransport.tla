----------------------------- MODULE WsTransport -----------------------------
(***************************************************************************)
(* One pooled connection of the WebSocket transport (transport/ws.rs) and  *)
(* the calls multiplexed on it.  A dial is shared by the callers that      *)
(* join it; what it yields is a handle: an outgoing channel and a map of   *)
(* pending ids, served by a reader and a writer task of its own.  Losing   *)
(* the socket, an id nobody waits for and a call's timeout all reset the   *)
(* connection.  Threads interleave at every lock and await: a reset bumps  *)
(* the generation first and takes the connection later.                    *)
(*                                                                         *)
(* The server is external: it answers each id it was sent at most once, in *)
(* an array or one by one, maybe short, and may drop the socket.           *)
(***************************************************************************)
EXTENDS FiniteSets, Naturals

CONSTANTS
  Calls,      \* send_single and send_batch calls, each made once
  Ids(_),     \* the request ids of a call; distinct calls share none
  Timed,      \* the calls whose timeout is not zero: it is an option of each
  MaxDials,   \* bounds the dials
  None

ASSUME IdsAssumption ==
  /\ \A c \in Calls : IsFiniteSet(Ids(c)) /\ Ids(c) # {}
  /\ \A c, d \in Calls : c # d => Ids(c) \cap Ids(d) = {}
ASSUME TimedAssumption == Timed \subseteq Calls /\ MaxDials \in Nat

VARIABLES
  generation,
  active, dialing,   \* ConnState: a dial's number, or None
  dial,              \* per dial: unused, connecting, failed, connected
  gen,               \* per dial: the generation its reader will reset
  reader, writer,    \* per dial: its tasks
  responders,        \* per dial: ids with a live sender
  batches,           \* per dial: the ids of each registered batch
  owed,              \* per dial: ids the server has received and not answered
  call,              \* per call: where it stands, on which dial, and the error it met
  got,               \* per call: ids answered to it
  shorted,           \* calls whose batch the server answered short
  drained            \* dials whose senders a reset dropped

connVars == <<generation, active, dialing>>
handleVars == <<dial, gen, reader, writer>>
pendingVars == <<responders, batches, owed>>
callVars == <<call, got, shorted, drained>>
wsVars == <<connVars, handleVars, pendingVars, callVars>>

Dials == 1 .. MaxDials

(* An error is retryable (Disconnected, Timeout) or a protocol fault.      *)
Over(error) == [pc |-> "done", on |-> None, gen |-> 0, error |-> error]

WsInit ==
  /\ generation = 0 /\ active = None /\ dialing = None
  /\ dial = [d \in Dials |-> "unused"] /\ gen = [d \in Dials |-> 0]
  /\ reader = [d \in Dials |-> "none"] /\ writer = [d \in Dials |-> FALSE]
  /\ responders = [d \in Dials |-> {}] /\ batches = [d \in Dials |-> {}] /\ owed = [d \in Dials |-> {}]
  /\ call = [c \in Calls |-> [Over(None) EXCEPT !.pc = "idle"]] /\ got = [c \in Calls |-> {}] /\ shorted = {} /\ drained = {}

IsBatch(c) == Cardinality(Ids(c)) > 1
At(c, pc) == call[c].pc = pc
Done(c, error) == call' = [call EXCEPT ![c] = Over(error)] /\ got' = [got EXCEPT ![c] = {}]

-----------------------------------------------------------------------------
(* get_active: the live handle, the dial in flight, or a new dial.         *)

UseActive(c) ==
  /\ At(c, "idle") /\ active # None
  /\ call' = [call EXCEPT ![c].pc = "holding", ![c].on = active]
  /\ UNCHANGED <<connVars, handleVars, pendingVars, got, shorted, drained>>

JoinDial(c) ==
  /\ At(c, "idle") /\ active = None /\ dialing # None
  /\ call' = [call EXCEPT ![c].pc = "joining", ![c].on = dialing]
  /\ UNCHANGED <<connVars, handleVars, pendingVars, got, shorted, drained>>

StartDial(c) ==
  /\ At(c, "idle") /\ active = None /\ dialing = None
  /\ \E d \in Dials :
       /\ dial[d] = "unused" /\ \A e \in Dials : e < d => dial[e] # "unused"
       /\ dialing' = d
       /\ dial' = [dial EXCEPT ![d] = "connecting"]
       /\ call' = [call EXCEPT ![c].pc = "joining", ![c].on = d]
  /\ UNCHANGED <<generation, active, gen, reader, writer, pendingVars, got, shorted, drained>>

(* A shared future runs while some caller awaits it.                       *)
Driven(d) == \E c \in Calls : At(c, "joining") /\ call[c].on = d

DialConnects(d) ==
  /\ dial[d] = "connecting" /\ Driven(d)
  /\ dial' = [dial EXCEPT ![d] = "connected"]
  /\ gen' = [gen EXCEPT ![d] = generation]
  /\ reader' = [reader EXCEPT ![d] = "up"]
  /\ writer' = [writer EXCEPT ![d] = TRUE]
  /\ UNCHANGED <<connVars, pendingVars, callVars>>

DialFails(d) ==
  /\ dial[d] = "connecting" /\ Driven(d)
  /\ dial' = [dial EXCEPT ![d] = "failed"]
  /\ UNCHANGED <<connVars, gen, reader, writer, pendingVars, callVars>>

(* Every joiner settles the outcome, however late.                         *)
SettleDial(c) ==
  /\ At(c, "joining")
  /\ dialing' = None
  /\ \/ /\ dial[call[c].on] = "connected"
        /\ active' = call[c].on
        /\ call' = [call EXCEPT ![c].pc = "holding"]
     \/ /\ dial[call[c].on] = "failed"
        /\ call' = [call EXCEPT ![c] = Over("retryable")]
        /\ UNCHANGED active
  /\ UNCHANGED <<generation, handleVars, pendingVars, got, shorted, drained>>

-----------------------------------------------------------------------------
(* send_batch samples the generation, then both register and send.         *)

SampleGeneration(c) ==
  /\ At(c, "holding") /\ IsBatch(c)
  /\ call' = [call EXCEPT ![c].pc = "sampled", ![c].gen = generation]
  /\ UNCHANGED <<connVars, handleVars, pendingVars, got, shorted, drained>>

Ready(c) == IF IsBatch(c) THEN At(c, "sampled") ELSE At(c, "holding")

(* A frame handed to the writer of a lost socket is lost.                  *)
Register(c) ==
  /\ Ready(c) /\ writer[call[c].on]
  /\ LET d == call[c].on
     IN /\ responders' = [responders EXCEPT ![d] = @ \cup Ids(c)]
        /\ batches' = [batches EXCEPT ![d] = IF IsBatch(c) THEN @ \cup {Ids(c)} ELSE @]
        /\ owed' = [owed EXCEPT ![d] = IF reader[d] = "up" THEN @ \cup Ids(c) ELSE @]
  /\ call' = [call EXCEPT ![c].pc = "waiting"]
  /\ UNCHANGED <<connVars, handleVars, got, shorted, drained>>

(* reset_current: the generation is read now, exchanged in CallResets, and *)
(* the connection taken in CallTakes.                                      *)
ResetCurrent(c) ==
  /\ call' = [call EXCEPT ![c] = [Over("retryable") EXCEPT !.pc = "resetting", !.gen = generation]]
  /\ got' = [got EXCEPT ![c] = {}]

SendFails(c) ==
  /\ Ready(c) /\ ~writer[call[c].on]
  /\ ResetCurrent(c)
  /\ UNCHANGED <<connVars, handleVars, pendingVars, shorted, drained>>

-----------------------------------------------------------------------------
(* How a waiting call ends.                                                *)

Without(groups, ids) == {g \ ids : g \in groups} \ {{}}

(* unregister.                                                             *)
Unregister(d, ids) ==
  /\ responders' = [responders EXCEPT ![d] = @ \ ids]
  /\ batches' = [batches EXCEPT ![d] = Without(@, ids)]

Answered(c) == At(c, "waiting") /\ Ids(c) \subseteq got[c]
Dropped(c) == At(c, "waiting") /\ \E id \in Ids(c) : id \notin got[c] \cup responders[call[c].on]

ReceiveAll(c) ==
  /\ Answered(c)
  /\ Done(c, None)
  /\ UNCHANGED <<connVars, handleVars, pendingVars, shorted, drained>>

(* The sender of some id is gone.                                          *)
ReceiveError(c) ==
  /\ Dropped(c)
  /\ IF IsBatch(c)
       THEN /\ Unregister(call[c].on, Ids(c))
            /\ Done(c, IF generation # call[c].gen THEN "retryable" ELSE "protocol")
       ELSE Done(c, "retryable") /\ UNCHANGED <<responders, batches>>
  /\ UNCHANGED <<connVars, handleVars, owed, shorted, drained>>

TimesOut(c) ==
  /\ c \in Timed /\ At(c, "waiting")
  /\ ResetCurrent(c)
  /\ UNCHANGED <<connVars, handleVars, pendingVars, shorted, drained>>

(* Mutant: a cancelled call takes its ids with it.                         *)
CancelUnregisters(c) ==
  /\ call[c].pc \in {"joining", "waiting", "taking"}
  /\ Done(c, None)
  /\ IF At(c, "waiting") THEN Unregister(call[c].on, Ids(c)) ELSE UNCHANGED <<responders, batches>>
  /\ UNCHANGED <<connVars, handleVars, owed, shorted, drained>>

(* The caller is dropped at one of its awaits; its ids stay registered.    *)
Cancel(c) ==
  /\ call[c].pc \in {"joining", "waiting", "taking"}
  /\ Done(c, None)
  /\ UNCHANGED <<connVars, handleVars, pendingVars, shorted, drained>>

-----------------------------------------------------------------------------
(* reset, first half: a reset that meets another generation stands back.   *)
CallResets(c) ==
  /\ At(c, "resetting")
  /\ IF generation = call[c].gen
       THEN generation' = generation + 1 /\ call' = [call EXCEPT ![c].pc = "taking"]
       ELSE call' = [call EXCEPT ![c].pc = "done"] /\ UNCHANGED generation
  /\ UNCHANGED <<active, dialing, handleVars, pendingVars, got, shorted, drained>>

(* Mutant: the handle taken keeps its senders.                             *)
TakeKeepsSenders ==
  /\ active' = None
  /\ drained' = drained \cup ({active} \ {None})
  /\ UNCHANGED <<generation, dialing, owed, responders, batches>>

(* reset, second half: take whatever is active and drop its senders.       *)
TakeActive ==
  /\ active' = None
  /\ IF active = None THEN UNCHANGED <<responders, batches, drained>>
     ELSE /\ drained' = drained \cup {active}
          /\ responders' = [responders EXCEPT ![active] = {}]
          /\ batches' = [batches EXCEPT ![active] = {}]
  /\ UNCHANGED <<generation, dialing, owed>>

CallTakes(c) ==
  /\ At(c, "taking")
  /\ TakeActive
  /\ call' = [call EXCEPT ![c].pc = "done"]
  /\ UNCHANGED <<handleVars, got, shorted>>

(* The reader resets the generation its dial was made in.                  *)
ReaderResets(d) ==
  /\ reader[d] \in {"lost", "unknown"}
  /\ IF generation = gen[d]
       THEN generation' = generation + 1 /\ reader' = [reader EXCEPT ![d] = "taking"]
       ELSE reader' = [reader EXCEPT ![d] = "gone"] /\ UNCHANGED generation
  /\ UNCHANGED <<active, dialing, dial, gen, writer, pendingVars, callVars>>

ReaderTakes(d) ==
  /\ reader[d] = "taking"
  /\ TakeActive
  /\ reader' = [reader EXCEPT ![d] = "gone"]
  /\ UNCHANGED <<dial, gen, writer, call, got, shorted>>

(* The socket closes, errs, or carries a frame that is no response: not    *)
(* text, no JSON object or array, malformed, a whole-batch error.          *)
SocketLost(d) ==
  /\ reader[d] = "up"
  /\ reader' = [reader EXCEPT ![d] = "lost"]
  /\ owed' = [owed EXCEPT ![d] = {}]
  /\ UNCHANGED <<connVars, dial, gen, writer, responders, batches, callVars>>

(* The writer ends with its channel, which the handle's users keep open,   *)
(* or when it writes to a socket that is gone.                             *)
WriterEnds(d) ==
  /\ writer[d]
  /\ \/ reader[d] # "up"
     \/ active # d /\ \A c \in Calls : call[c].on = d => At(c, "done")
  /\ writer' = [writer EXCEPT ![d] = FALSE]
  /\ UNCHANGED <<connVars, dial, gen, reader, pendingVars, callVars>>

-----------------------------------------------------------------------------
(* Frames.                                                                 *)

Received(d, ids) == [c \in Calls |-> IF call[c].on = d /\ At(c, "waiting") THEN got[c] \cup (ids \cap Ids(c)) ELSE got[c]]

(* route_one: an id with a sender is answered; one without is corruption.  *)
RouteOne(d, id) ==
  /\ reader[d] = "up" /\ id \in owed[d]
  /\ owed' = [owed EXCEPT ![d] = IF id \in responders[d] THEN @ \ {id} ELSE {}]
  /\ IF id \in responders[d]
       THEN got' = Received(d, {id}) /\ UNCHANGED reader
       ELSE reader' = [reader EXCEPT ![d] = "unknown"] /\ UNCHANGED got
  /\ Unregister(d, {id})
  /\ UNCHANGED <<connVars, dial, gen, writer, call, shorted, drained>>

(* route_array: the batches it belongs to are looked up, the items routed, *)
(* and what the batches still expected is failed at once.  An unknown id   *)
(* ends the routing, at any place of the array.                            *)
RouteArray(d, ids) ==
  /\ reader[d] = "up" /\ ids # {} /\ ids \subseteq owed[d]
  /\ LET owning == {g \in batches[d] : g \cap ids # {}}
         missing == UNION owning \ ids
     IN IF ids \subseteq responders[d]
          THEN /\ got' = Received(d, ids)
               /\ Unregister(d, ids \cup missing)
               /\ owed' = [owed EXCEPT ![d] = @ \ ids]
               /\ shorted' = shorted \cup {c \in Calls : Ids(c) \cap missing # {}}
               /\ UNCHANGED reader
          ELSE /\ \E routed \in SUBSET (ids \cap responders[d]) :
                    got' = Received(d, routed) /\ Unregister(d, routed)
               /\ owed' = [owed EXCEPT ![d] = {}]
               /\ reader' = [reader EXCEPT ![d] = "unknown"]
               /\ UNCHANGED shorted
  /\ UNCHANGED <<connVars, dial, gen, writer, call, drained>>

-----------------------------------------------------------------------------
CallStep(c) ==
  \/ UseActive(c) \/ JoinDial(c) \/ StartDial(c) \/ SettleDial(c)
  \/ SampleGeneration(c) \/ Register(c) \/ SendFails(c)
  \/ ReceiveAll(c) \/ ReceiveError(c) \/ TimesOut(c) \/ CallResets(c) \/ CallTakes(c)

DialEnds(d) == DialConnects(d) \/ DialFails(d)

WsNext ==
  \/ \E c \in Calls : CallStep(c) \/ Cancel(c)
  \/ \E d \in Dials :
       \/ DialEnds(d) \/ ReaderResets(d) \/ ReaderTakes(d) \/ SocketLost(d) \/ WriterEnds(d)
       \/ \E c \in Calls : \E ids \in SUBSET Ids(c) : IsBatch(c) /\ RouteArray(d, ids)
       \/ \E c \in Calls : \E id \in Ids(c) : RouteOne(d, id)

(* Tasks run and timers fire.  Nothing makes a server answer, or a         *)
(* connect end: connect_async has no timeout.                              *)
Fairness ==
  /\ \A c \in Calls : WF_wsVars(CallStep(c))
  /\ \A d \in Dials : WF_wsVars(ReaderResets(d) \/ ReaderTakes(d))

WsSpec == WsInit /\ [][WsNext]_wsVars /\ Fairness

-----------------------------------------------------------------------------
(* Properties.                                                             *)

WaitsOn(c, d) == At(c, "waiting") /\ call[c].on = d

(* "Every pending sender is dropped by whichever reset succeeds, so each   *)
(* waiting receiver resolves promptly": a call that waits on a handle ends *)
(* once some reset, of any actor, takes that handle, with no timer to help *)
(* and whichever of its ids were answered already.                         *)
DrainEndsWaiters ==
  \A c \in Calls, d \in Dials :
    [](WaitsOn(c, d) /\ d \notin drained => [](d \in drained => <>At(c, "done")))

(* A server that answers what it was asked is never taken for a corrupt    *)
(* one: unless a reset drained the handle, no cancelled or failed call     *)
(* leaves it to meet an id it does not know, which would reset it and take *)
(* every sibling down.                                                     *)
SiblingsUndisturbed == shorted = {} => \A d \in Dials \ drained : reader[d] # "unknown"

(* send_batch tells a reset from a short answer by the generation: "the    *)
(* only path that does this is `fail_short_batches`", so the fault that is *)
(* not retried is reported only for a batch the server answered short.     *)
ProtocolMeansShort == \A c \in Calls : call[c].error = "protocol" => c \in shorted
=============================================================================
